---- MODULE Spec2Model ----
(***************************************************************************)
(* Model of the action combinators of src/src/missions/action.rs.          *)
(*                                                                         *)
(* One combinator, built over two leaf actions (children 1 = first and     *)
(* 2 = second; ActionUntil uses child 1 only), has its execute() driven by *)
(* the executor.  A leaf action is a future that, once polled, does `busy` *)
(* units of CPU work without a suspension point, then suspends on a timer  *)
(* for `wait` units, then completes with one value.  Polls take no time of *)
(* their own; the clock `now` advances only when no thread can take a      *)
(* step (the executor polls a woken task at once).                         *)
(*                                                                         *)
(* tokio::join! polls its unfinished branches one after the other in every *)
(* poll pass, the first pass starting with the first branch; tokio::select!*)
(* polls its branches in a random order and returns at the first branch    *)
(* that is ready, dropping the other one.                                  *)
(***************************************************************************)
EXTENDS Integers, Sequences, FiniteSets, TLC

\* Bounds of the model.
MaxBusy == 2
MaxWait == 2
MaxLimit == 3
MaxMods == 2
MaxInput == 2
MaxRuns == 2
MaxWorkers == 2
MaxArgs == 4
MaxMissions == 2
MaxSteps == 2
MaxPipelines == 1
MaxLeafId == 2
\* #[tokio::main]: the multi-thread runtime, which has a worker besides the
\* one that runs the mission.
MainWorkers == 2

\* `limit: u32` and the counter compared with it, with the width scaled down:
\* the unsigned type ranges over 0..MaxLimit and arithmetic wraps beyond it.
UintMod == MaxLimit + 1

Children == {1, 2}
Other(c) == 3 - c

\* The three-child combinators hold true_branch and false_branch as children 1
\* and 2 and `condition` as a third child.
Condition == 3
Futures == Children \cup {Condition}

Cooperative == {"Sequence", "Chain", "Race", "Select", "Concurrent", "Until",
                "While", "FirstValid", "Conditional", "DataConditional",
                "ConcurrentSplit", "TupleSecond", "Dual"}
Combinators == Cooperative \cup {"Parallel"}
\* RaceAction::new(ActionParallel::new(first, second), sibling)
Nested == {"RaceParallel"}

VARIABLES
    comb,   \* the combinator whose execute() is driven
    workers, \* number of threads of the runtime that runs tasks and services its timers
    nest,   \* act_nest!: the wrapper and actions given, the action built, its execution
    leaf,   \* leaf[c]: the behaviour of child c: [busy, wait, outs]
    limit,  \* ActionUntil.limit
    conf,   \* conf[c]: the input child c was last modified with (<<>> if never)
    cst,    \* cst[c]: the state of child c's execute future: [pc, at, n, in]
    now,    \* the clock
    log,    \* history of the children's side effects, in order
    pc,     \* position of the task that awaits the combinator's execute()
    stage,  \* Sequence/Chain: the child being awaited; Until: 1 before the loop, 2 in it
    count,  \* ActionUntil::execute's local `count`
    todo,   \* branches of join!/select! still to poll in the current poll pass
    ret,    \* <<>> until execute() returns, then <<value>>
    tpc,    \* ActionParallel: tpc[i], the position of spawned thread i
    guard,  \* ActionParallel: guard[i] = TRUE while child i's Mutex is locked
    tval,   \* ActionParallel: tval[i], the value thread i finished with (<<>> if none)
    acc,    \* ActionWhile::execute's local `result`
    calls,  \* number of modify() calls made on the combinator
    lastIn, \* <<>> or <<input>>: the input of the latest modify() call on the combinator
    cancelled, \* the caller's CancellationToken has been cancelled
    fired,  \* <<>> or <<cst, log>>: the children and history when the token was cancelled
    args,   \* main: the missions named on the command line, in order
    arg,    \* main: index of the argument of the current loop iteration
    mpc,    \* main: position of main / run_mission
    steps,  \* steps the running mission has still to take
    res,    \* run_mission's `res`: <<>> or <<"Ok">> / <<"Err">>
    ended,  \* how the latest mission's future ended: "none", "completed", "cancelled"
    handshake, \* what run_mission has done to PIPELINE_KILL for the latest mission
    pipeline_kill, \* PIPELINE_KILL: [count, flag]
    shutdown_guard, \* permits of SHUTDOWN_GUARD that are available
    ran,    \* indexes of the missions started, in order
    hpc,    \* position of the task spawned by shutdown_handler
    exit_status, \* the handler's exit_status: <<>> or <<x>>
    acquired, \* outcome of the handler's timeout(.., SHUTDOWN_GUARD.acquire())
    shutdown_rx, \* messages sent on the shutdown channel and not yet received
    watcher, \* the arm/disarm watcher task has still to send
    mission_ct, \* the mission CancellationToken is cancelled
    motors, \* "stopped" or "running": the latest speed command the control board got
    process \* <<>> while the process runs, <<code>> when it has exited

\* The state of main.rs.
mainVars == <<args, arg, mpc, steps, res, ended, handshake, pipeline_kill, shutdown_guard,
              ran, hpc, exit_status, acquired, shutdown_rx, watcher, mission_ct, motors,
              process>>

\* The state of one combinator, its children and the runtime.
actionVars == <<comb, workers, nest, leaf, limit, conf, cst, now, log, pc, stage, count,
                todo, ret, tpc, guard, tval, acc, calls, lastIn, cancelled, fired>>

vars == <<mainVars, comb, workers, nest, leaf, limit, conf, cst, now, log, pc, stage, count,
          todo, ret, tpc, guard, tval, acc, calls, lastIn, cancelled, fired>>

(***************************************************************************)
(* Leaf actions: the ActionExec contract, one value per execute().         *)
(***************************************************************************)
NumOuts == MaxLimit + 1

Min(a, b) == IF a < b THEN a ELSE b
Max(a, b) == IF a < b THEN b ELSE a

\* The value the n-th execute() of child c produces when it read input `in`.
Result(c, s) ==
    [by |-> c, n |-> s.n,
     ok |-> leaf[c].outs[Min(Max(s.n, 1), Len(leaf[c].outs))],
     in |-> s.in]

IsErr(r) == ~r.ok

IdleFuture == [pc |-> "idle", at |-> 0, n |-> 0, in |-> <<>>]

\* A thread that polls child c gets control back (Pending or Ready) only
\* when the child's CPU work is over.
CanPoll(c) == cst[c].pc \in {"idle", "waiting"} \/ (cst[c].pc = "running" /\ now >= cst[c].at)

Suspend(c, s) ==
    IF leaf[c].wait > 0
    THEN [s EXCEPT !.pc = "waiting", !.at = now + leaf[c].wait]
    ELSE [s EXCEPT !.pc = "done", !.at = now]

\* The state of child c's future after one poll at time `now`.
LeafPoll(c) ==
    LET s == cst[c] IN
    CASE s.pc = "idle" ->
            LET started == [s EXCEPT !.n = s.n + 1, !.in = conf[c]] IN
            IF leaf[c].busy > 0
            THEN [started EXCEPT !.pc = "running", !.at = now + leaf[c].busy]
            ELSE Suspend(c, started)
      [] s.pc = "running" -> Suspend(c, s)
      [] s.pc = "waiting" ->
            IF now >= s.at THEN [s EXCEPT !.pc = "done", !.at = now] ELSE s
      [] OTHER -> s

\* The side effects the poll of child c performs, as history.
Events(c, new) ==
    (IF cst[c].pc = "idle" THEN <<[ev |-> "start", c |-> c]>> ELSE <<>>)
    \o (IF new.pc = "done" /\ cst[c].pc # "done" THEN <<[ev |-> "done", c |-> c]>> ELSE <<>>)

\* A dropped future is never polled again.
Drop(s) == IF s.pc = "done" THEN s ELSE [s EXCEPT !.pc = "dropped"]

(***************************************************************************)
(* Poll orders of the tokio macros.                                        *)
(***************************************************************************)
Unfinished(ord) == SelectSeq(ord, LAMBDA c : cst[c].pc # "done")

SelectOrders == {<<1, 2>>, <<2, 1>>}

(***************************************************************************)
(* Initial state: a combinator constructed over two leaves, not yet run.   *)
(***************************************************************************)
Timings == [busy : 0..MaxBusy, wait : 0..MaxWait]

Leaves(k) == {[busy |-> t.busy, wait |-> t.wait, outs |-> o] :
                t \in Timings, o \in [1..k -> BOOLEAN]}

Unused == [busy |-> 0, wait |-> 0, outs |-> <<TRUE>>]

\* Children that only suspend (the branches of the conditionals).
Waiters == {l \in Leaves(1) : l.busy = 0}

\* U::default()
Default == [by |-> 0, n |-> 0, ok |-> TRUE, in |-> <<>>]

Setup(w) ==
    /\ workers = w
    /\ IF comb = "Until"
       THEN /\ \E a \in Leaves(NumOuts) : leaf = <<a, Unused, Unused>>
            /\ limit \in 0..MaxLimit
       ELSE IF comb = "While"
       THEN /\ \E a \in Leaves(NumOuts) : leaf = <<a, Unused, Unused>>
            /\ limit = 0
       ELSE IF comb \in {"Conditional", "DataConditional"} \cup Nested
       THEN /\ \E a \in Waiters, b \in Waiters, c \in Leaves(1) : leaf = <<a, b, c>>
            /\ limit = 0
       ELSE /\ \E a \in Leaves(1), b \in Leaves(1) : leaf = <<a, b, Unused>>
            /\ limit = 0
    /\ conf = <<<<>>, <<>>, <<>>>>
    /\ cst = <<IdleFuture, IdleFuture, IdleFuture>>
    /\ now = 0
    /\ log = <<>>
    /\ pc = "start"
    /\ stage = 1
    /\ count = 0
    /\ todo = <<>>
    /\ ret = <<>>
    /\ tpc = <<"none", "none">>
    /\ guard = <<FALSE, FALSE>>
    /\ tval = <<<<>>, <<>>>>
    /\ acc = Default
    /\ calls = 0
    /\ lastIn = <<>>
    /\ cancelled = FALSE
    /\ fired = <<>>

\* Faulty variant: the semaphore has a permit to spare.
Permits_two == 1 + 1

\* static SHUTDOWN_GUARD: Semaphore = Semaphore::const_new(1);
Permits == 1

\* The process before main has run: no mission, the handler not spawned.
MainIdle(missions) ==
    /\ args = missions
    /\ arg = 1
    /\ mpc = "loop"
    /\ steps = 0
    /\ res = <<>>
    /\ ended = "none"
    /\ handshake = <<>>
    /\ pipeline_kill = [count |-> 0, flag |-> FALSE]
    /\ shutdown_guard = Permits
    /\ ran = <<>>
    /\ hpc = "wait"
    /\ exit_status = <<>>
    /\ acquired = "none"
    /\ shutdown_rx = <<>>
    /\ watcher = TRUE
    /\ mission_ct = FALSE
    /\ motors = "stopped"
    /\ process = <<>>

\* No act_nest! in play.
NoNest == [wrapper |-> "none", args |-> <<>>, built |-> <<>>, stack |-> <<>>,
           trace |-> <<>>, result |-> <<>>]

Init ==
    /\ comb \in Combinators
    /\ Setup(MainWorkers)
    /\ nest = NoNest
    /\ MainIdle(<<>>)

(***************************************************************************)
(* The cooperative combinators.  Each action is one step of the task       *)
(* inside the combinator's execute(): entering it, or polling a child.     *)
(***************************************************************************)
\* Faulty variant: the outcome is unwrapped before it is returned, which
\* panics on a failure.
Return_unwrapping(v) ==
    IF (IF comb \in {"Concurrent", "ConcurrentSplit", "Parallel", "Dual"}
        THEN ~v[1].ok \/ ~v[2].ok ELSE ~v.ok)
    THEN pc' = "panicked" /\ ret' = ret
    ELSE pc' = "returned" /\ ret' = <<v>>

\* The value execute() evaluates to, a child's failure included, is handed
\* to the caller as it is.
Return(v) == /\ pc' = "returned"
             /\ ret' = <<v>>

\* self.first.execute().await; self.second.execute().await
\* (`self` names the combinator the body runs as.)
SequenceExecute(self) ==
    /\ comb = self
    /\ \/ /\ pc = "start"
          /\ pc' = "poll"
          /\ stage' = 1
          /\ UNCHANGED <<cst, log, ret>>
       \/ /\ pc = "poll"
          /\ CanPoll(stage)
          /\ LET new == LeafPoll(stage) IN
             /\ cst' = [cst EXCEPT ![stage] = new]
             /\ log' = log \o Events(stage, new)
             /\ IF new.pc = "done"
                THEN IF stage = 1
                     THEN pc' = "poll" /\ stage' = 2 /\ ret' = ret
                     ELSE Return(Result(2, new)) /\ stage' = stage
                ELSE /\ pc' = IF new.pc = "running" THEN "poll" ELSE "parked"
                     /\ UNCHANGED <<stage, ret>>
    /\ UNCHANGED <<mainVars, comb, workers, nest, leaf, limit, conf, now, count, todo, tpc, guard, tval, acc, calls, lastIn,
                   cancelled, fired>>

\* Faulty variant: the second child is executed without being modified.
Chain_unmodified == SequenceExecute("Chain")

\* self.second.modify(&self.first.execute().await); self.second.execute().await
ActionChain_execute ==
    /\ comb = "Chain"
    /\ \/ /\ pc = "start"
          /\ pc' = "poll"
          /\ stage' = 1
          /\ UNCHANGED <<cst, log, ret, conf>>
       \/ /\ pc = "poll"
          /\ CanPoll(stage)
          /\ LET new == LeafPoll(stage) IN
             /\ cst' = [cst EXCEPT ![stage] = new]
             /\ IF new.pc = "done"
                THEN IF stage = 1
                     THEN /\ conf' = [conf EXCEPT ![2] = <<Result(1, new)>>]
                          /\ log' = log \o Events(1, new) \o <<[ev |-> "modify", c |-> 2]>>
                          /\ pc' = "poll"
                          /\ stage' = 2
                          /\ ret' = ret
                     ELSE /\ Return(Result(2, new))
                          /\ log' = log \o Events(2, new)
                          /\ UNCHANGED <<stage, conf>>
                ELSE /\ pc' = IF new.pc = "running" THEN "poll" ELSE "parked"
                     /\ log' = log \o Events(stage, new)
                     /\ UNCHANGED <<stage, ret, conf>>
    /\ UNCHANGED <<mainVars, comb, workers, nest, leaf, limit, now, count, todo, tpc, guard, tval, acc, calls, lastIn,
                   cancelled, fired>>

\* tokio::select! { res = self.first.execute() => res, res = self.second.execute() => res }
\* Faulty variant: only a successful outcome completes the select.
Ready_okOnly(c, new) == new.pc = "done" /\ Result(c, new).ok

\* A branch of select! completes it as soon as its future is ready; the
\* pattern `res` / `x` binds any outcome.
Ready(c, new) == new.pc = "done"

\* Each poll pass polls the branches in a random order; the first branch found
\* ready gives the result and the other child's future is dropped.
SelectExecute(self) ==
    /\ comb = self
    /\ \/ /\ pc = "start"
          /\ pc' = "poll"
          /\ todo' \in SelectOrders
          /\ UNCHANGED <<cst, log, ret>>
       \/ /\ pc = "poll"
          /\ todo # <<>>
          /\ CanPoll(Head(todo))
          /\ LET c == Head(todo)
                 new == LeafPoll(c)
             IN /\ log' = log \o Events(c, new)
                /\ IF Ready(c, new)
                   THEN /\ cst' = [cst EXCEPT ![c] = new, ![Other(c)] = Drop(cst[Other(c)])]
                        /\ Return(Result(c, new))
                        /\ todo' = <<>>
                   ELSE /\ cst' = [cst EXCEPT ![c] = new]
                        /\ ret' = ret
                        /\ IF new.pc = "running"
                           THEN pc' = "poll" /\ todo' = todo
                           ELSE /\ todo' = Tail(todo)
                                /\ pc' = IF Tail(todo) = <<>> THEN "parked" ELSE "poll"
    /\ UNCHANGED <<mainVars, comb, workers, nest, leaf, limit, conf, now, stage, count, tpc, guard, tval, acc, calls, lastIn,
                   cancelled, fired>>

\* join!(self.first.execute(), self.second.execute())
\* Each poll pass polls every branch that has not completed; the pair is
\* returned by the pass that finds both complete.
\* Faulty variant: the second outcome is preferred whenever it is a success.
FirstValidPick_secondFirst(pair) == IF pair[2].ok THEN pair[2] ELSE pair[1]

\* let (first, second) = self.action.execute().await;
\* if first.is_ok() { first } else { second }
FirstValidPick(pair) == IF pair[1].ok THEN pair[1] ELSE pair[2]

\* Faulty variant: the first element is returned.
TupleSecondPick_first(pair) == pair[1]

\* self.action.execute().await.1
TupleSecondPick(pair) == pair[2]

\* What the combinator makes of the pair its join produced: FirstValid and
\* TupleSecond wrap the join, the others return the pair itself.
Project(self, pair) ==
    IF self = "FirstValid" THEN FirstValidPick(pair)
    ELSE IF self = "TupleSecond" THEN TupleSecondPick(pair)
    ELSE pair

JoinExecute(self) ==
    /\ comb = self
    /\ \/ /\ pc = "start"
          /\ pc' = "poll"
          /\ todo' = <<1, 2>>
          /\ UNCHANGED <<cst, log, ret>>
       \/ /\ pc = "poll"
          /\ Unfinished(todo) # <<>>
          /\ CanPoll(Head(Unfinished(todo)))
          /\ LET c == Head(Unfinished(todo))
                 new == LeafPoll(c)
                 cs == [cst EXCEPT ![c] = new]
                 rest == SelectSeq(Tail(Unfinished(todo)), LAMBDA d : cs[d].pc # "done")
             IN /\ cst' = cs
                /\ log' = log \o Events(c, new)
                /\ IF new.pc = "running"
                   THEN /\ todo' = Unfinished(todo)
                        /\ UNCHANGED <<pc, ret>>
                   ELSE IF rest # <<>>
                   THEN pc' = "poll" /\ todo' = rest /\ ret' = ret
                   ELSE /\ todo' = <<>>
                        /\ IF cs[1].pc = "done" /\ cs[2].pc = "done"
                           THEN Return(Project(self, <<Result(1, cs[1]), Result(2, cs[2])>>))
                           ELSE pc' = "parked" /\ ret' = ret
    /\ UNCHANGED <<mainVars, comb, workers, nest, leaf, limit, conf, now, stage, count, tpc, guard, tval, acc, calls, lastIn,
                   cancelled, fired>>

\* Faulty variant: the two children joined instead of awaited one after the other.
Sequence_joined == JoinExecute("Sequence")

ActionSequence_execute == SequenceExecute("Sequence")

\* Faulty variant: the race waits for both children, as a join does.
Race_joined == JoinExecute("Race")

RaceAction_execute == SelectExecute("Race")

\* Faulty variant: the select waits for both children, as a join does.
Select_joined == JoinExecute("Select")

ActionSelect_execute == SelectExecute("Select")

\* Faulty variant: the join returns as soon as one child is ready.
Concurrent_selected == SelectExecute("Concurrent")

\* Faulty variant: the second child is started only when the first has completed.
Concurrent_sequenced == SequenceExecute("Concurrent")

ActionConcurrent_execute == JoinExecute("Concurrent")

ActionConcurrentSplit_execute == JoinExecute("ConcurrentSplit")

\* Faulty variant: the children are joined on the calling task instead of
\* being handed to threads of their own.
Parallel_joined == JoinExecute("Parallel")

\* Faulty variant: DualAction completes with the first child that is ready.
Dual_selected == SelectExecute("Dual")

\* tokio::join!(self.first.execute(), self.second.execute())
DualAction_execute == JoinExecute("Dual")

\* TupleSecond::new(ActionConcurrent::new(first, second))
TupleSecond_execute == JoinExecute("TupleSecond")

\* Faulty variant: the first child to complete decides, the other is dropped.
FirstValid_selected == SelectExecute("FirstValid")

\* FirstValid::new(ActionConcurrent::new(first, second))
FirstValid_execute == JoinExecute("FirstValid")

\* Faulty variant: an attempt is given up, and its outcome taken, as soon as
\* it suspends.
Awaited_early(new) == new.pc \in {"done", "waiting"}

\* self.action.execute().await in the loops: the loop goes on only when the
\* attempt's future has completed.
Awaited(new) == new.pc = "done"

\* Faulty variant: the counter starts at 0.
UntilCountStart_zero == 1 - 1

\* let mut count = 1;
UntilCountStart == 1

\* Faulty variant: the loop goes on after a success.
UntilContinue_anyResult(result, cnt) == cnt < limit

\* Faulty variant: the loop allows one attempt too many.
UntilContinue_inclusive(result, cnt) == IsErr(result) /\ cnt <= limit

\* while result.is_err() && count < self.limit
UntilContinue(result, cnt) == IsErr(result) /\ cnt < limit

\* let mut count = 1; let mut result = self.action.execute().await;
\* while result.is_err() && count < self.limit { result = ...; count += 1; } result
ActionUntil_execute ==
    /\ comb = "Until"
    /\ \/ /\ pc = "start"
          /\ pc' = "poll"
          /\ count' = UntilCountStart
          /\ stage' = 1
          /\ UNCHANGED <<cst, log, ret>>
       \/ /\ pc = "poll"
          /\ CanPoll(1)
          /\ LET new == LeafPoll(1) IN
             /\ log' = log \o Events(1, new)
             /\ IF Awaited(new)
                THEN LET result == Result(1, new)
                         cnt == IF stage = 2 THEN (count + 1) % UintMod ELSE count
                     IN /\ count' = cnt
                        /\ IF UntilContinue(result, cnt)
                           THEN /\ cst' = [cst EXCEPT ![1] = [new EXCEPT !.pc = "idle"]]
                                /\ stage' = 2
                                /\ pc' = "poll"
                                /\ ret' = ret
                           ELSE /\ cst' = [cst EXCEPT ![1] = new]
                                /\ stage' = stage
                                /\ Return(result)
                ELSE /\ cst' = [cst EXCEPT ![1] = new]
                     /\ pc' = IF new.pc = "running" THEN "poll" ELSE "parked"
                     /\ UNCHANGED <<stage, count, ret>>
    /\ UNCHANGED <<mainVars, comb, workers, nest, leaf, limit, conf, now, todo, tpc, guard, tval, acc, calls, lastIn,
                   cancelled, fired>>

\* Faulty variant: the branches are taken the wrong way round.
Branch_swapped(r) == IF r.ok THEN 2 ELSE 1

\* if <condition> { self.true_branch ... } else { self.false_branch ... }
\* (true_branch is child 1, false_branch child 2; a condition that yields
\* true or Some(t) is an outcome with ok set, and t is that outcome.)
Branch(r) == IF r.ok THEN 1 ELSE 2

\* The two conditionals: the condition is awaited, then one branch.  With
\* `passes` the value of the condition is handed to the true branch first.
ConditionalExecute(self, passes) ==
    /\ comb = self
    /\ \/ /\ pc = "start"
          /\ pc' = "poll"
          /\ stage' = Condition
          /\ UNCHANGED <<cst, log, ret, conf>>
       \/ /\ pc = "poll"
          /\ CanPoll(stage)
          /\ LET new == LeafPoll(stage) IN
             /\ cst' = [cst EXCEPT ![stage] = new]
             /\ IF new.pc = "done"
                THEN IF stage = Condition
                     THEN LET output == Result(Condition, new)
                              taken == Branch(output)
                          IN /\ IF passes /\ taken = 1
                                THEN /\ conf' = [conf EXCEPT ![1] = <<output>>]
                                     /\ log' = log \o Events(Condition, new)
                                                   \o <<[ev |-> "modify", c |-> 1]>>
                                ELSE /\ conf' = conf
                                     /\ log' = log \o Events(Condition, new)
                             /\ pc' = "poll"
                             /\ stage' = taken
                             /\ ret' = ret
                     ELSE /\ Return(Result(stage, new))
                          /\ log' = log \o Events(stage, new)
                          /\ UNCHANGED <<stage, conf>>
                ELSE /\ pc' = IF new.pc = "running" THEN "poll" ELSE "parked"
                     /\ log' = log \o Events(stage, new)
                     /\ UNCHANGED <<stage, ret, conf>>
    /\ UNCHANGED <<mainVars, comb, workers, nest, leaf, limit, now, count, todo, tpc, guard, tval, acc, calls, lastIn,
                   cancelled, fired>>

\* if self.condition.execute().await { self.true_branch.execute().await }
\* else { self.false_branch.execute().await }
ActionConditional_execute == ConditionalExecute("Conditional", FALSE)

\* Faulty variant: the true branch is executed without the condition's value.
DataConditional_unmodified == ConditionalExecute("DataConditional", FALSE)

\* if let Some(output) = self.condition.execute().await {
\*     self.true_branch.modify(&output); self.true_branch.execute().await }
\* else { self.false_branch.execute().await }
ActionDataConditional_execute == ConditionalExecute("DataConditional", TRUE)

\* Faulty variant: the first successful value is kept instead of the latest.
WhileUpdate_keepFirst(old, new_result) == IF old = Default THEN new_result ELSE old

\* result = new_result;
WhileUpdate(old, new_result) == new_result

\* Faulty variant: the running result is a field that outlives the call.
WhileStart_kept == acc

\* let mut result = U::default();
WhileStart == Default

\* Faulty variant: the loop also ends after a fixed number of attempts.
WhileStops_bounded(r) == IsErr(r) \/ r.n >= MaxLimit

\* if let Ok(new_result) = ... { ... } else { return result; }
WhileStops(r) == IsErr(r)

\* let mut result = U::default();
\* loop { if let Ok(new_result) = self.action.execute().await { result = new_result; }
\*        else { return result; } }
\* (An attempt is started only while the child has an outcome of its own left.)
ActionWhile_execute ==
    /\ comb = "While"
    /\ \/ /\ pc = "start"
          /\ pc' = "poll"
          /\ acc' = WhileStart
          /\ UNCHANGED <<cst, log, ret>>
       \/ /\ pc = "poll"
          /\ CanPoll(1)
          /\ cst[1].pc = "idle" => cst[1].n < Len(leaf[1].outs)
          /\ LET new == LeafPoll(1) IN
             /\ log' = log \o Events(1, new)
             /\ IF Awaited(new)
                THEN IF ~WhileStops(Result(1, new))
                     THEN /\ acc' = WhileUpdate(acc, Result(1, new))
                          /\ cst' = [cst EXCEPT ![1] = [new EXCEPT !.pc = "idle"]]
                          /\ pc' = "poll"
                          /\ ret' = ret
                     ELSE /\ cst' = [cst EXCEPT ![1] = new]
                          /\ acc' = acc
                          /\ Return(acc)
                ELSE /\ cst' = [cst EXCEPT ![1] = new]
                     /\ pc' = IF new.pc = "running" THEN "poll" ELSE "parked"
                     /\ UNCHANGED <<acc, ret>>
    /\ UNCHANGED <<mainVars, comb, workers, nest, leaf, limit, conf, now, stage, count, todo, tpc, guard, tval,
                   calls, lastIn, cancelled, fired>>

\* A timer a suspended child waits on has expired: the task is woken and
\* the executor polls the combinator's future again.
Wake ==
    /\ pc = "parked"
    /\ \E c \in Futures : cst[c].pc = "waiting" /\ now >= cst[c].at
    /\ pc' = "poll"
    /\ todo' \in IF comb \in {"Race", "Select", "Concurrent", "ConcurrentSplit", "FirstValid",
                            "TupleSecond", "Dual"}
                THEN SelectOrders ELSE {todo}
    /\ UNCHANGED <<mainVars, comb, workers, nest, leaf, limit, conf, cst, now, log, stage, count, ret,
                   tpc, guard, tval, acc, calls, lastIn,
                   cancelled, fired>>

(***************************************************************************)
(* ActionParallel: the task spawns one thread per child and joins both;    *)
(* each thread locks its child and drives it with Handle::block_on.        *)
(***************************************************************************)
\* Faulty variant: the two results in the wrong order.
ParallelPair_swapped == <<tval[2][1], tval[1][1]>>

\* (fut1.join().unwrap(), fut2.join().unwrap())
ParallelPair == <<tval[1][1], tval[2][1]>>

\* Faulty variant: the second thread is spawned only when the first has been joined.
Parallel_serial ==
    /\ comb = "Parallel"
    /\ \/ /\ pc = "start"
          /\ pc' = "join1"
          /\ tpc' = [tpc EXCEPT ![1] = "spawned"]
          /\ ret' = ret
       \/ /\ pc = "join1"
          /\ tpc[1] = "finished"
          /\ pc' = "join2"
          /\ tpc' = [tpc EXCEPT ![2] = "spawned"]
          /\ ret' = ret
       \/ /\ pc = "join2"
          /\ tpc[2] = "finished"
          /\ Return(ParallelPair)
          /\ UNCHANGED tpc
    /\ UNCHANGED <<mainVars, comb, workers, nest, leaf, limit, conf, cst, now, log, stage, count, todo,
                   guard, tval, acc, calls, lastIn,
                   cancelled, fired>>

\* thread::spawn(..); thread::spawn(..); then the two blocking joins, in order.
ActionParallel_execute ==
    /\ comb = "Parallel"
    /\ \/ /\ pc = "start"
          /\ pc' = "spawn2"
          /\ tpc' = [tpc EXCEPT ![1] = "spawned"]
          /\ ret' = ret
       \/ /\ pc = "spawn2"
          /\ pc' = "join1"
          /\ tpc' = [tpc EXCEPT ![2] = "spawned"]
          /\ ret' = ret
       \/ /\ pc = "join1"
          /\ tpc[1] = "finished"
          /\ pc' = "join2"
          /\ UNCHANGED <<tpc, ret>>
       \/ /\ pc = "join2"
          /\ tpc[2] = "finished"
          /\ Return(ParallelPair)
          /\ UNCHANGED tpc
    /\ UNCHANGED <<mainVars, comb, workers, nest, leaf, limit, conf, cst, now, log, stage, count, todo,
                   guard, tval, acc, calls, lastIn,
                   cancelled, fired>>

\* Faulty variant: block_on drives the timers itself, whatever the runtime's
\* threads are doing.
TimersServiced_always == TRUE

\* Handle::block_on does not drive the runtime's timer and I/O drivers: a
\* future suspended in it is woken only when a thread of the runtime turns
\* the driver, and the thread that runs the caller of ActionParallel::execute
\* is blocked in join() until both threads have finished.
TimersServiced == workers > 1

\* Faulty variant: the guard is taken for one poll of the child at a time and
\* released whenever the child suspends.
ParallelThread_perPoll(i) ==
    /\ comb = "Parallel"
    /\ \/ /\ tpc[i] = "spawned"
          /\ ~guard[i]
          /\ cst[i].pc = "idle" \/ now >= cst[i].at
          /\ guard' = [guard EXCEPT ![i] = TRUE]
          /\ tpc' = [tpc EXCEPT ![i] = "locked"]
          /\ UNCHANGED <<cst, log, tval>>
       \/ /\ tpc[i] = "locked"
          /\ \/ cst[i].pc = "idle"
             \/ cst[i].pc = "running" /\ now >= cst[i].at
             \/ cst[i].pc = "waiting" /\ now >= cst[i].at /\ TimersServiced
          /\ LET new == LeafPoll(i) IN
             /\ cst' = [cst EXCEPT ![i] = new]
             /\ log' = log \o Events(i, new)
             /\ guard' = [guard EXCEPT ![i] = new.pc = "running"]
             /\ IF new.pc = "done"
                THEN /\ tval' = [tval EXCEPT ![i] = <<Result(i, new)>>]
                     /\ tpc' = [tpc EXCEPT ![i] = "finished"]
                ELSE /\ tval' = tval
                     /\ tpc' = [tpc EXCEPT ![i] = IF new.pc = "running" THEN "locked"
                                                  ELSE "spawned"]
    /\ UNCHANGED <<mainVars, comb, workers, nest, leaf, limit, conf, now, pc, stage, count, todo, ret, acc, calls, lastIn,
                   cancelled, fired>>

\* Faulty variant: the guard is not released when the child has completed.
ParallelThread_leaking(i) ==
    /\ comb \in {"Parallel"} \cup Nested
    /\ \/ /\ tpc[i] = "spawned"
          /\ ~guard[i]
          /\ guard' = [guard EXCEPT ![i] = TRUE]
          /\ tpc' = [tpc EXCEPT ![i] = "locked"]
          /\ UNCHANGED <<cst, log, tval>>
       \/ /\ tpc[i] = "locked"
          /\ \/ cst[i].pc = "idle"
             \/ cst[i].pc = "running" /\ now >= cst[i].at
             \/ cst[i].pc = "waiting" /\ now >= cst[i].at /\ TimersServiced
          /\ LET new == LeafPoll(i) IN
             /\ cst' = [cst EXCEPT ![i] = new]
             /\ log' = log \o Events(i, new)
             /\ IF new.pc = "done"
                THEN /\ tval' = [tval EXCEPT ![i] = <<Result(i, new)>>]
                     /\ tpc' = [tpc EXCEPT ![i] = "finished"]
                     /\ guard' = guard
                ELSE UNCHANGED <<tval, guard, tpc>>
    /\ UNCHANGED <<mainVars, comb, workers, nest, leaf, limit, conf, now, pc, stage, count, todo, ret, acc, calls, lastIn,
                   cancelled, fired>>

\* handle.block_on(async move { child.lock().await.execute().await })
\* The guard returned by lock() lives to the end of the expression, that is
\* until execute() has returned.
ParallelThread(i) ==
    /\ comb \in {"Parallel"} \cup Nested
    /\ \/ /\ tpc[i] = "spawned"
          /\ ~guard[i]
          /\ guard' = [guard EXCEPT ![i] = TRUE]
          /\ tpc' = [tpc EXCEPT ![i] = "locked"]
          /\ UNCHANGED <<cst, log, tval>>
       \/ /\ tpc[i] = "locked"
          /\ \/ cst[i].pc = "idle"
             \/ cst[i].pc = "running" /\ now >= cst[i].at
             \/ cst[i].pc = "waiting" /\ now >= cst[i].at /\ TimersServiced
          /\ LET new == LeafPoll(i) IN
             /\ cst' = [cst EXCEPT ![i] = new]
             /\ log' = log \o Events(i, new)
             /\ IF new.pc = "done"
                THEN /\ tval' = [tval EXCEPT ![i] = <<Result(i, new)>>]
                     /\ guard' = [guard EXCEPT ![i] = FALSE]
                     /\ tpc' = [tpc EXCEPT ![i] = "finished"]
                ELSE UNCHANGED <<tval, guard, tpc>>
    /\ UNCHANGED <<mainVars, comb, workers, nest, leaf, limit, conf, now, pc, stage, count, todo, ret, acc, calls, lastIn,
                   cancelled, fired>>

(***************************************************************************)
(* RaceAction over an ActionParallel and a cooperative sibling.            *)
(***************************************************************************)
\* The branch of the select! that holds ActionParallel::execute's future;
\* the other branch is the sibling, future 3.
Inner == 0

Sibling == Condition

RaceOrders == {<<Inner, Sibling>>, <<Sibling, Inner>>}

\* tokio::select! { res = self.first.execute() => res, res = self.second.execute() => res }
\* with first an ActionParallel.  A poll of the inner branch runs
\* ActionParallel::execute from its start to its return: the body has no
\* .await after the spawns, and join() blocks the thread that polls.  With
\* `yields` the joins are suspension points at which the select! goes on to
\* poll the sibling.
RaceParallelBody(yields) ==
    /\ comb = "RaceParallel"
    /\ \/ /\ pc = "start"
          /\ pc' = "poll"
          /\ todo' \in RaceOrders
          /\ UNCHANGED <<cst, log, ret, tpc>>
       \/ /\ pc = "poll"
          /\ Head(todo) = Sibling
          /\ CanPoll(Sibling)
          /\ LET new == LeafPoll(Sibling) IN
             /\ log' = log \o Events(Sibling, new)
             /\ IF Ready(Sibling, new)
                THEN /\ cst' = [c \in Futures |-> IF c = Sibling THEN new ELSE Drop(cst[c])]
                     /\ Return(Result(Sibling, new))
                     /\ todo' = <<>>
                ELSE /\ cst' = [cst EXCEPT ![Sibling] = new]
                     /\ ret' = ret
                     /\ pc' = "poll"
                     /\ todo' = IF new.pc = "running" THEN todo ELSE Tail(todo)
          /\ UNCHANGED tpc
       \/ /\ pc = "poll"
          /\ Head(todo) = Inner
          /\ pc' = "spawn2"
          /\ tpc' = [tpc EXCEPT ![1] = "spawned"]
          /\ UNCHANGED <<cst, log, ret, todo>>
       \/ /\ pc = "spawn2"
          /\ pc' = "join1"
          /\ tpc' = [tpc EXCEPT ![2] = "spawned"]
          /\ UNCHANGED <<cst, log, ret, todo>>
       \/ /\ pc = "join1"
          /\ tpc[1] = "finished"
          /\ pc' = "join2"
          /\ UNCHANGED <<cst, log, ret, todo, tpc>>
       \/ /\ pc = "join2"
          /\ tpc[2] = "finished"
          /\ cst' = [cst EXCEPT ![Sibling] = Drop(cst[Sibling])]
          /\ Return(ParallelPair)
          /\ todo' = <<>>
          /\ UNCHANGED <<log, tpc>>
       \/ /\ yields
          /\ \/ pc = "join1" /\ tpc[1] # "finished"
             \/ pc = "join2" /\ tpc[2] # "finished"
          /\ cst[Sibling].pc = "idle" \/ (cst[Sibling].pc \in {"running", "waiting"}
                                            /\ now >= cst[Sibling].at)
          /\ LET new == LeafPoll(Sibling) IN
             /\ log' = log \o Events(Sibling, new)
             /\ IF Ready(Sibling, new)
                THEN /\ cst' = [c \in Futures |-> IF c = Sibling THEN new ELSE Drop(cst[c])]
                     /\ Return(Result(Sibling, new))
                     /\ todo' = <<>>
                ELSE /\ cst' = [cst EXCEPT ![Sibling] = new]
                     /\ UNCHANGED <<ret, pc, todo>>
          /\ UNCHANGED tpc
    /\ UNCHANGED <<mainVars, comb, workers, nest, leaf, limit, conf, now, stage, count, guard, tval, acc, calls,
                   lastIn, cancelled, fired>>

\* Faulty variant: the joins are awaited, so the task yields while a thread
\* is still running.
RaceParallel_yielding == RaceParallelBody(TRUE)

\* RaceAction::execute over ActionParallel::execute as the code has it.
RaceParallel_execute == RaceParallelBody(FALSE)

(***************************************************************************)
(* Time.                                                                   *)
(***************************************************************************)
\* A step of the task or of a spawned thread.
Step ==
    \/ ActionSequence_execute
    \/ ActionChain_execute
    \/ RaceAction_execute
    \/ ActionSelect_execute
    \/ ActionConcurrent_execute
    \/ ActionConcurrentSplit_execute
    \/ FirstValid_execute
    \/ TupleSecond_execute
    \/ DualAction_execute
    \/ ActionConditional_execute
    \/ ActionDataConditional_execute
    \/ ActionUntil_execute
    \/ ActionWhile_execute
    \/ Wake
    \/ ActionParallel_execute
    \/ \E i \in Children : ParallelThread(i)

\* Time passes while every thread is computing, suspended or blocked.
Tick ==
    /\ ~ENABLED Step
    /\ \E c \in Futures : cst[c].pc \in {"running", "waiting"} /\ cst[c].at > now
    /\ now' = now + 1
    /\ UNCHANGED <<mainVars, comb, workers, nest, leaf, limit, conf, cst, log, pc, stage, count, todo, ret,
                   tpc, guard, tval, acc, calls, lastIn,
                   cancelled, fired>>

Next == Step \/ Tick

Spec == Init /\ [][Next]_vars

TypeOK ==
    /\ comb \in Combinators \cup Nested
    /\ workers \in 1..Max(MaxWorkers, MainWorkers)
    /\ pc \in {"start", "poll", "parked", "returned", "spawn2", "join1", "join2", "cancelled",
              "panicked"}
    /\ cancelled \in BOOLEAN
    /\ Len(fired) = IF cancelled THEN 1 ELSE 0
    /\ \A c \in Futures : cst[c].pc \in {"idle", "running", "waiting", "done", "dropped"}
    /\ now \in Nat
    /\ Len(ret) <= 1

(***************************************************************************)
(* modify(): the configuration a combinator forwards to its children.      *)
(* modify takes &mut self, so it runs only while no execute is in flight.  *)
(***************************************************************************)
Inputs == {[by |-> 0, n |-> k, ok |-> TRUE, in |-> <<>>] : k \in 1..MaxInput}

\* The calls child.modify(&value) a combinator's modify makes, in order:
\* order[i] is the child, vals[i] the value it is given.
ModifyChildren(order, vals, input) ==
    /\ pc \in {"start", "returned"}
    /\ calls < MaxMods
    /\ conf' = [c \in 1..3 |->
                  IF \E i \in 1..Len(order) : order[i] = c
                  THEN <<vals[CHOOSE i \in 1..Len(order) : order[i] = c]>>
                  ELSE conf[c]]
    /\ log' = log \o [i \in 1..Len(order) |-> [ev |-> "modify", c |-> order[i]]]
    /\ calls' = calls + 1
    /\ lastIn' = <<input>>
    /\ UNCHANGED <<mainVars, comb, workers, nest, leaf, limit, cst, now, pc, stage, count, todo, ret,
                   tpc, guard, tval, acc, cancelled, fired>>

\* Faulty variant: the input is forwarded to the second child as well.
Sequence_modifyBoth ==
    comb = "Sequence" /\ \E x \in Inputs : ModifyChildren(<<1, 2>>, <<x, x>>, x)

\* self.first.modify(input)
ActionSequence_modify ==
    comb = "Sequence" /\ \E x \in Inputs : ModifyChildren(<<1>>, <<x>>, x)

\* self.first.modify(input);
ActionChain_modify ==
    comb = "Chain" /\ \E x \in Inputs : ModifyChildren(<<1>>, <<x>>, x)

\* self.first.modify(input); self.second.modify(input);
ActionConcurrent_modify ==
    comb = "Concurrent" /\ \E x \in Inputs : ModifyChildren(<<1, 2>>, <<x, x>>, x)

\* Faulty variant: the halves of the pair are handed out the wrong way round.
ConcurrentSplit_swapped ==
    comb = "ConcurrentSplit" /\
        \E l \in Inputs, r \in Inputs : ModifyChildren(<<1, 2>>, <<r, l>>, <<l, r>>)

\* self.first.modify(&input.0); self.second.modify(&input.1);
ActionConcurrentSplit_modify ==
    comb = "ConcurrentSplit" /\
        \E l \in Inputs, r \in Inputs : ModifyChildren(<<1, 2>>, <<l, r>>, <<l, r>>)

\* Faulty variant: the input is forwarded to the true branch as well.
DataConditional_modifyAll ==
    comb = "DataConditional" /\
        \E x \in Inputs : ModifyChildren(<<Condition, 1, 2>>, <<x, x, x>>, x)

\* self.condition.modify(input); self.false_branch.modify(input);
ActionDataConditional_modify ==
    comb = "DataConditional" /\
        \E x \in Inputs : ModifyChildren(<<Condition, 2>>, <<x, x>>, x)

\* self.action.modify(input), the wrapped action being the join of both
\* children, whose modify hands the input to each.
TupleSecond_modify ==
    comb = "TupleSecond" /\ \E x \in Inputs : ModifyChildren(<<1, 2>>, <<x, x>>, x)

\* self.action.modify(input), the wrapped action being the join of both.
FirstValid_modify ==
    comb = "FirstValid" /\ \E x \in Inputs : ModifyChildren(<<1, 2>>, <<x, x>>, x)

\* Faulty variant: only the first branch is given the input.
Select_modifyFirst ==
    comb = "Select" /\ \E x \in Inputs : ModifyChildren(<<1>>, <<x>>, x)

\* self.first.modify(input); self.second.modify(input);
ActionSelect_modify ==
    comb = "Select" /\ \E x \in Inputs : ModifyChildren(<<1, 2>>, <<x, x>>, x)

\* self.first.modify(input); self.second.modify(input);
DualAction_modify ==
    comb = "Dual" /\ \E x \in Inputs : ModifyChildren(<<1, 2>>, <<x, x>>, x)

\* The combinators whose modify is studied, over children that only suspend.
Modifiable == {"Sequence", "Chain", "Concurrent", "ConcurrentSplit", "DataConditional",
               "TupleSecond", "FirstValid", "Select", "Dual"}

InitMod ==
    /\ Init
    /\ comb \in Modifiable
    /\ \A c \in Futures : leaf[c].busy = 0

NextMod ==
    \/ ActionSequence_modify
    \/ ActionChain_modify
    \/ ActionConcurrent_modify
    \/ ActionConcurrentSplit_modify
    \/ ActionDataConditional_modify
    \/ TupleSecond_modify
    \/ FirstValid_modify
    \/ ActionSelect_modify
    \/ DualAction_modify
    \/ TupleSecond_execute
    \/ FirstValid_execute
    \/ ActionSelect_execute
    \/ DualAction_execute
    \/ ActionSequence_execute
    \/ ActionChain_execute
    \/ ActionConcurrent_execute
    \/ ActionConcurrentSplit_execute
    \/ ActionDataConditional_execute
    \/ Wake
    \/ Tick

SpecMod == InitMod /\ [][NextMod]_vars

(***************************************************************************)
(* Execution under the cancellation token:                                 *)
(*     let _ = cancel.run_until_cancelled($fut).await;                     *)
(* The token is cancelled from outside the mission's task (the shutdown    *)
(* handler, the panic hook).  The adapter can return only when it is       *)
(* polled, so a poll of the tree that is under way runs on to the point    *)
(* where the task suspends.                                                *)
(***************************************************************************)
\* mission_ct.cancel(), while the tree is executing.
Fire ==
    /\ ~cancelled
    /\ pc \notin {"start", "returned"}
    /\ cancelled' = TRUE
    /\ fired' = <<[log |-> log, cst |-> cst, pc |-> pc, now |-> now]>>
    /\ UNCHANGED <<mainVars, comb, workers, nest, leaf, limit, conf, cst, now, log, pc, stage, count, todo, ret,
                   tpc, guard, tval, acc, calls, lastIn>>

\* Faulty variant: the token is looked at only once the tree has completed.
Abandon_afterCompletion ==
    /\ pc = "returned"
    /\ cancelled
    /\ pc' = "cancelled"
    /\ ret' = <<>>
    /\ UNCHANGED <<mainVars, comb, workers, nest, leaf, limit, conf, cst, now, log, stage, count, todo,
                   tpc, guard, tval, acc, calls, lastIn, cancelled, fired>>

\* run_until_cancelled returns None: the task is suspended in the adapter,
\* the token is cancelled; the tree's future is dropped, and every child's
\* future with it.
Abandon ==
    /\ pc = "parked"
    /\ cancelled
    /\ pc' = "cancelled"
    /\ cst' = [c \in 1..3 |-> Drop(cst[c])]
    /\ UNCHANGED <<mainVars, comb, workers, nest, leaf, limit, conf, now, log, stage, count, todo, ret,
                   tpc, guard, tval, acc, calls, lastIn, cancelled, fired>>

\* The cancellation wakes the suspended task: no time passes before it is
\* polled.
TickCancel == ~ENABLED Abandon /\ Tick

\* The trees studied under cancellation.
CancelScope == {"Sequence", "Chain", "Concurrent", "Race", "Select", "Conditional",
                "Until", "While"}

InitCancel ==
    /\ Init
    /\ comb \in CancelScope \cup {"Parallel"}

NextCancel ==
    \/ ActionSequence_execute
    \/ ActionChain_execute
    \/ RaceAction_execute
    \/ ActionSelect_execute
    \/ ActionConcurrent_execute
    \/ ActionConditional_execute
    \/ ActionUntil_execute
    \/ ActionWhile_execute
    \/ Wake
    \/ ActionParallel_execute
    \/ \E i \in Children : ParallelThread(i)
    \/ Fire
    \/ Abandon
    \/ TickCancel

SpecCancel == InitCancel /\ [][NextCancel]_vars

(***************************************************************************)
(* A further invocation of execute() on a combinator that has returned.    *)
(* The call makes new futures for the children; the children themselves    *)
(* live on, so a child's n-th outcome is that of its n-th execution since  *)
(* construction.                                                           *)
(***************************************************************************)
Runs == 1 + Cardinality({i \in 1..Len(log) : log[i].ev = "execute"})

Reexecute ==
    /\ pc = "returned"
    /\ Runs < MaxRuns
    /\ pc' = "start"
    /\ ret' = <<>>
    /\ cst' = [c \in 1..3 |-> [IdleFuture EXCEPT !.n = cst[c].n]]
    /\ log' = log \o <<[ev |-> "execute", c |-> 0]>>
    /\ UNCHANGED <<mainVars, comb, workers, nest, leaf, limit, conf, now, stage, count, todo,
                   tpc, guard, tval, acc, calls, lastIn, cancelled, fired>>

InitAgain ==
    /\ Init
    /\ comb \in {"Sequence", "Until", "While"}

NextAgain ==
    \/ ActionSequence_execute
    \/ ActionUntil_execute
    \/ ActionWhile_execute
    \/ Wake
    \/ Tick
    \/ Reexecute

SpecAgain == InitAgain /\ [][NextAgain]_vars

(***************************************************************************)
(* History helpers.                                                        *)
(***************************************************************************)
At(ev, c) == {i \in 1..Len(log) : log[i].ev = ev /\ log[i].c = c}
Happened(ev, c) == At(ev, c) # {}
\* Every (ev1, c1) event precedes every (ev2, c2) event.
Precedes(ev1, c1, ev2, c2) == \A i \in At(ev1, c1), j \in At(ev2, c2) : i < j
Returned == pc = "returned"
RetVal == ret[1]

(***************************************************************************)
(* Claims.                                                                 *)
(***************************************************************************)

\* C1: ActionSequence(A,B).execute() starts B only after A's execute has
\* completed (no step of B precedes A's last step), discards A's result (B
\* never receives it) and returns exactly the value B's execute produced.
C1_SequenceOrder ==
    comb = "Sequence" =>
        /\ \A i, j \in 1..Len(log) : (log[i].c = 1 /\ log[j].c = 2) => i < j
        /\ cst[2].pc # "idle" => cst[1].pc = "done"
        /\ conf[2] = <<>>
        /\ Returned =>
              /\ cst[1].pc = "done" /\ cst[2].pc = "done"
              /\ cst[1].n = 1 /\ cst[2].n = 1
              /\ RetVal = Result(2, cst[2])
              /\ RetVal.by = 2 /\ RetVal.in = <<>>

\* C1 witness: a Sequence has returned after A both computed and suspended
\* and B suspended.
C1_Witness ==
    /\ comb = "Sequence" /\ Returned
    /\ leaf[1].busy > 0 /\ leaf[1].wait > 0 /\ leaf[2].wait > 0

\* C2: in ActionChain(A,B).execute(), B.modify is called exactly once, with
\* exactly the value v that A produced, after A completes and before B's
\* execute begins; B executes on that input and the chain returns B's result.
C2_ChainDataflow ==
    comb = "Chain" =>
        /\ Cardinality(At("modify", 2)) <= 1
        /\ Precedes("done", 1, "modify", 2)
        /\ Precedes("modify", 2, "start", 2)
        /\ Happened("modify", 2) => Happened("done", 1) /\ conf[2] = <<Result(1, cst[1])>>
        /\ cst[2].pc # "idle" =>
              /\ cst[1].pc = "done"
              /\ Cardinality(At("modify", 2)) = 1
              /\ cst[2].in = <<Result(1, cst[1])>>
        /\ Returned =>
              /\ cst[2].pc = "done" /\ cst[1].n = 1 /\ cst[2].n = 1
              /\ RetVal = Result(2, cst[2])
              /\ RetVal.by = 2
              /\ RetVal.in = <<[by |-> 1, n |-> 1, ok |-> leaf[1].outs[1], in |-> <<>>]>>

\* C2 witness: a Chain has returned B's result computed from a failure value of
\* a suspending A.
C2_Witness ==
    /\ comb = "Chain" /\ Returned
    /\ leaf[1].wait > 0 /\ ~leaf[1].outs[1] /\ leaf[2].wait > 0
    /\ RetVal.in[1].by = 1

\* The child that completed in a race.
Winner == CHOOSE c \in Children : cst[c].pc = "done"

\* C3: RaceAction(A,B).execute() returns the result of the child that completes
\* first, at that child's completion time and without the other child having
\* completed; a child that needs no suspension wins against one that suspends,
\* and of two pure delays the strictly shorter one wins and the race returns
\* after exactly that delay.
C3_RaceFirstWins ==
    (comb = "Race" /\ Returned) =>
        /\ \E c \in Children : cst[c].pc = "done"
        /\ cst[Other(Winner)].pc # "done"
        /\ ~Happened("done", Other(Winner))
        /\ cst[Winner].at = now
        /\ RetVal = Result(Winner, cst[Winner])
        /\ RetVal.by = Winner
        /\ \A b \in Children :
              /\ (leaf[b].wait = 0 /\ leaf[Other(b)].wait > 0) => Winner = b
              /\ ( /\ leaf[1].busy = 0 /\ leaf[2].busy = 0
                   /\ leaf[b].wait < leaf[Other(b)].wait )
                 => (Winner = b /\ now = leaf[b].wait)

\* C3 witness: A is the longer delay, B the shorter one, and the race has
\* returned B's result at B's delay.
C3_Witness ==
    /\ comb = "Race" /\ Returned
    /\ leaf[1].busy = 0 /\ leaf[2].busy = 0
    /\ leaf[2].wait > 0 /\ leaf[2].wait < leaf[1].wait
    /\ Winner = 2 /\ now = leaf[2].wait
    /\ cst[1].pc = "dropped" /\ cst[1].n = 1
\* C4: once RaceAction or ActionSelect has returned one child's result, the
\* other child takes no further step: it has not completed, it is dropped at
\* the point it had reached (never polled, or suspended on its timer), and from
\* then on neither child's state nor the history of side effects changes.
C4_LoserAbandoned ==
    /\ [](( comb \in {"Race", "Select"} /\ Returned) =>
            /\ \E c \in Children : cst[c].pc = "done"
            /\ cst[Other(Winner)].pc = "dropped"
            /\ ~Happened("done", Other(Winner))
            /\ cst[Other(Winner)].n = 0 <=> ~Happened("start", Other(Winner))
            /\ cst[Other(Winner)].n = 1 => leaf[Other(Winner)].wait > 0)
    /\ [][(comb \in {"Race", "Select"} /\ Returned) => (cst' = cst /\ log' = log)]_vars

\* C4 witness: a Select has returned A's result while B, started, was still
\* suspended on a timer that had not expired.
C4_Witness ==
    /\ comb = "Select" /\ Returned /\ Winner = 1
    /\ cst[2].pc = "dropped" /\ cst[2].n = 1 /\ cst[2].at > now

\* C5: ActionConcurrent(A,B).execute() returns only after both children have
\* produced a result, and returns the pair (A's result, B's result) in child
\* order whichever child finished first.
C5_ConcurrentJoin ==
    (comb = "Concurrent" /\ Returned) =>
        /\ cst[1].pc = "done" /\ cst[2].pc = "done"
        /\ Happened("done", 1) /\ Happened("done", 2)
        /\ RetVal = <<Result(1, cst[1]), Result(2, cst[2])>>
        /\ RetVal[1].by = 1 /\ RetVal[2].by = 2
        /\ cst[1].n = 1 /\ cst[2].n = 1

\* C5 witness: a Concurrent has returned after B completed strictly before A.
C5_Witness ==
    /\ comb = "Concurrent" /\ Returned
    /\ cst[2].at < cst[1].at
    /\ Precedes("done", 2, "done", 1)
    /\ RetVal[1].by = 1

\* Both children are pure waits of at least one time unit.
PureWaits == \A c \in Children : leaf[c].busy = 0 /\ leaf[c].wait > 0

\* C6: when A and B each only suspend, for T_a and T_b time units,
\* ActionConcurrent(A,B).execute() starts B before A has completed, each wait
\* elapses while the other child is suspended, and execute returns after
\* max(T_a, T_b) time units (not T_a + T_b).
C6_ConcurrentOverlap ==
    (comb = "Concurrent" /\ PureWaits) =>
        /\ Precedes("start", 2, "done", 1)
        /\ Precedes("start", 1, "done", 2)
        /\ cst[1].pc = "done" => cst[2].pc # "idle"
        /\ \A c \in Children : cst[c].pc = "done" => cst[c].at = leaf[c].wait
        /\ Returned =>
              /\ now = Max(leaf[1].wait, leaf[2].wait)
              /\ now < leaf[1].wait + leaf[2].wait

\* C6 witness: a Concurrent over two waits of different lengths has returned.
C6_Witness ==
    /\ comb = "Concurrent" /\ PureWaits /\ Returned
    /\ leaf[1].wait > leaf[2].wait
    /\ now = leaf[1].wait
\* A is CPU-bound for D time units without suspending; B is a timer of D.
BusyVsTimer ==
    /\ leaf[1].busy > 0 /\ leaf[1].wait = 0
    /\ leaf[2].busy = 0 /\ leaf[2].wait = leaf[1].busy

\* C7: with A CPU-bound for D time units and B a timer of D time units,
\* ActionParallel(A,B).execute() starts B while A is running, B's wait elapses
\* during A's computation and execute returns after D (not 2D); with the same
\* children ActionConcurrent(A,B) does not start B while A runs and returns
\* after 2D.
C7_ParallelTrueConcurrency ==
    BusyVsTimer =>
        /\ comb = "Parallel" =>
              /\ Precedes("start", 2, "done", 1)
              /\ cst[2].pc = "done" => cst[2].at = leaf[1].busy
              /\ Returned => now = leaf[1].busy
        /\ comb = "Concurrent" =>
              /\ cst[1].pc = "running" => cst[2].pc = "idle"
              /\ Precedes("done", 1, "start", 2)
              /\ Returned => now = 2 * leaf[1].busy

\* C7 witness: a Parallel over a CPU-bound child of D >= 2 time units and a
\* timer of D has returned at time D.
C7_Witness ==
    /\ comb = "Parallel" /\ BusyVsTimer /\ Returned
    /\ leaf[1].busy >= 2 /\ now = leaf[1].busy

\* C8: ActionParallel(A,B).execute() returns only after both children have
\* completed (both threads finished, both guards released) and returns the
\* pair (A's result, B's result) in child order, the pair ActionConcurrent
\* returns for the same child results, for every interleaving of the threads.
C8_ParallelOutput ==
    (comb = "Parallel" /\ Returned) =>
        /\ cst[1].pc = "done" /\ cst[2].pc = "done"
        /\ tpc = <<"finished", "finished">>
        /\ guard = <<FALSE, FALSE>>
        /\ RetVal = <<Result(1, cst[1]), Result(2, cst[2])>>
        /\ RetVal[1].by = 1 /\ RetVal[2].by = 2
        /\ cst[1].n = 1 /\ cst[2].n = 1

\* C8 witness: a Parallel has returned after B's thread finished strictly
\* before A's.
C8_Witness ==
    /\ comb = "Parallel" /\ Returned
    /\ cst[2].at < cst[1].at
    /\ Precedes("done", 2, "done", 1)
    /\ RetVal[1].by = 1

\* The child's first success is on attempt k.
FirstSuccess(k) ==
    /\ k \in 1..Len(leaf[1].outs)
    /\ leaf[1].outs[k]
    /\ \A j \in 1..(k - 1) : ~leaf[1].outs[j]

\* C9: if the child's first success is on attempt k and k <= limit,
\* ActionUntil(child, limit).execute() executes the child exactly k times and
\* returns the k-th, successful, outcome; no attempt follows a success.
C9_UntilFirstSuccess ==
    comb = "Until" =>
        \A k \in 1..Len(leaf[1].outs) :
            (FirstSuccess(k) /\ k <= limit) =>
                /\ cst[1].n <= k
                /\ Cardinality(At("start", 1)) <= k
                /\ Returned =>
                      /\ cst[1].n = k
                      /\ Cardinality(At("start", 1)) = k
                      /\ Cardinality(At("done", 1)) = k
                      /\ RetVal = Result(1, cst[1])
                      /\ RetVal.n = k /\ RetVal.ok

\* C9 witness: a child that fails twice and then succeeds, under limit 3, has
\* been executed three times and the Until has returned the success.
C9_Witness ==
    /\ comb = "Until" /\ Returned
    /\ limit = 3 /\ FirstSuccess(3)
    /\ cst[1].n = 3 /\ RetVal.ok

\* C10 as stated: for every limit, 0 included, the child is executed at most
\* `limit` times, and when all attempts fail the failure of the limit-th
\* attempt is returned.
C10_Original ==
    comb = "Until" =>
        /\ cst[1].n <= limit
        /\ (Returned /\ IsErr(RetVal)) => RetVal.n = limit

\* C10 (amended): for every limit, ActionUntil(child, limit).execute()
\* executes the child at least once and at most max(limit, 1) times, and when
\* all of those attempts fail it returns the failure of the last, the
\* max(limit, 1)-th, attempt.
C10_UntilBounded ==
    comb = "Until" =>
        /\ cst[1].n <= Max(limit, 1)
        /\ count <= Max(limit, 1)
        /\ Returned =>
              /\ cst[1].n >= 1
              /\ RetVal = Result(1, cst[1])
              /\ IsErr(RetVal) =>
                    /\ cst[1].n = Max(limit, 1)
                    /\ RetVal.n = Max(limit, 1)
                    /\ \A j \in 1..cst[1].n : ~leaf[1].outs[j]

\* C10 witness: with limit 0 the child has been executed once and its failure
\* returned.
C10_Witness ==
    /\ comb = "Until" /\ Returned
    /\ limit = 0 /\ cst[1].n = 1 /\ IsErr(RetVal)

\* The child returns n successes and then a failure.
FailsAfter(n) ==
    /\ n + 1 <= Len(leaf[1].outs)
    /\ ~leaf[1].outs[n + 1]
    /\ \A j \in 1..n : leaf[1].outs[j]

\* C11: if the child returns successes v1..vn (n >= 0) and then a failure,
\* ActionWhile(child).execute() executes the child exactly n+1 times and
\* returns vn, the last successful value, or the default value when n = 0;
\* never an earlier vi and never the failure.
C11_WhileAccumulation ==
    comb = "While" =>
        \A n \in 0..(Len(leaf[1].outs) - 1) :
            FailsAfter(n) =>
                /\ cst[1].n <= n + 1
                /\ Returned =>
                      /\ cst[1].n = n + 1
                      /\ Cardinality(At("start", 1)) = n + 1
                      /\ Cardinality(At("done", 1)) = n + 1
                      /\ RetVal = IF n = 0 THEN Default
                                  ELSE [by |-> 1, n |-> n, ok |-> TRUE, in |-> <<>>]
                      /\ RetVal.ok

\* C11 witness: a child that succeeds three times and then fails has been
\* executed four times and the While has returned the third value.
C11_Witness ==
    /\ comb = "While" /\ Returned
    /\ FailsAfter(3)
    /\ cst[1].n = 4 /\ RetVal.by = 1 /\ RetVal.n = 3

\* C12: FirstValid returns the first element of its child's pair when that
\* element is a success, whatever the second is, and otherwise the second
\* element unchanged, a failure included.
C12_FirstValid ==
    (comb = "FirstValid" /\ Returned) =>
        /\ cst[1].pc = "done" /\ cst[2].pc = "done"
        /\ leaf[1].outs[1] => RetVal = Result(1, cst[1])
        /\ ~leaf[1].outs[1] => RetVal = Result(2, cst[2])

\* C12 witness: the first outcome is a failure and the second one too, and the
\* second's failure is what FirstValid has returned.
C12_Witness ==
    /\ comb = "FirstValid" /\ Returned
    /\ ~leaf[1].outs[1] /\ ~leaf[2].outs[1]
    /\ RetVal.by = 2 /\ ~RetVal.ok

\* The branch the outcome of the condition selects.
Selected == IF leaf[Condition].outs[1] THEN 1 ELSE 2

\* C13: ActionConditional runs its condition exactly once and to completion
\* first, then exactly one branch, the true branch when the condition yielded
\* true and the false branch otherwise; the other branch takes no step, and
\* the value returned is the result of the branch that ran.
C13_Conditional ==
    comb = "Conditional" =>
        /\ cst[Condition].n <= 1
        /\ Cardinality(At("start", Condition)) <= 1
        /\ cst[3 - Selected] = IdleFuture
        /\ At("start", 3 - Selected) = {}
        /\ cst[Selected].pc # "idle" => cst[Condition].pc = "done"
        /\ Happened("start", Selected) => Precedes("done", Condition, "start", Selected)
        /\ cst[Selected].n <= 1
        /\ Returned =>
              /\ cst[Condition].pc = "done" /\ cst[Condition].n = 1
              /\ cst[Selected].pc = "done" /\ cst[Selected].n = 1
              /\ RetVal = Result(Selected, cst[Selected])
              /\ RetVal.by = Selected

\* C13 witness: the condition suspended and then yielded false, and the false
\* branch ran and its result has been returned.
C13_Witness ==
    /\ comb = "Conditional" /\ Returned
    /\ ~leaf[Condition].outs[1] /\ leaf[Condition].wait > 0
    /\ leaf[2].wait > 0
    /\ RetVal.by = 2

\* C14: when the condition of ActionDataConditional yields a present value t,
\* the true branch is modified with exactly t and then executed and the false
\* branch is not executed; when it yields absent, only the false branch is
\* executed and the true branch is neither modified nor executed.
C14_DataConditional ==
    comb = "DataConditional" =>
        /\ cst[3 - Selected] = IdleFuture
        /\ At("modify", 2) = {} /\ conf[2] = <<>>
        /\ Selected = 2 => (At("modify", 1) = {} /\ conf[1] = <<>>)
        /\ (Selected = 1 /\ cst[1].pc # "idle") =>
              /\ cst[Condition].pc = "done"
              /\ conf[1] = <<Result(Condition, cst[Condition])>>
              /\ cst[1].in = conf[1]
              /\ Cardinality(At("modify", 1)) = 1
              /\ Precedes("done", Condition, "modify", 1)
              /\ Precedes("modify", 1, "start", 1)
        /\ Returned =>
              /\ cst[Selected].pc = "done"
              /\ RetVal = Result(Selected, cst[Selected])

\* C14 witness: the condition yielded a value and the true branch, modified
\* with that value, has run and returned.
C14_Witness ==
    /\ comb = "DataConditional" /\ Returned
    /\ leaf[Condition].outs[1]
    /\ RetVal.by = 1
    /\ RetVal.in = <<[by |-> Condition, n |-> 1, ok |-> TRUE, in |-> <<>>]>>

\* C14 witness, absent case: the false branch ran, the true branch was
\* neither modified nor executed.
C14_WitnessAbsent ==
    /\ comb = "DataConditional" /\ Returned
    /\ ~leaf[Condition].outs[1]
    /\ RetVal.by = 2 /\ conf[1] = <<>> /\ cst[1] = IdleFuture

\* The number of times a child's modify has been called.
Modified(c) == Cardinality(At("modify", c))

\* C15: ActionDataConditional.modify(input) applies input to the condition
\* and to the false branch and leaves the true branch's configuration
\* unchanged; the true branch's configuration changes only through the value
\* the condition produced during execute.
C15_DataConditionalModify ==
    comb = "DataConditional" =>
        /\ Modified(Condition) = calls /\ Modified(2) = calls
        /\ conf[Condition] = lastIn /\ conf[2] = lastIn
        /\ conf[1] \in {<<>>, <<Result(Condition, cst[Condition])>>}
        /\ conf[1] # <<>> => (cst[Condition].pc = "done" /\ leaf[Condition].outs[1])
        /\ Modified(1) = IF conf[1] = <<>> THEN 0 ELSE 1

\* C15 witness: modify was called before the execution and again after it
\* with another input; the true branch still holds the condition's value,
\* which was computed from the first input.
C15_Witness ==
    /\ comb = "DataConditional" /\ Returned /\ calls = 2
    /\ RetVal.by = 1
    /\ conf[1] = <<Result(Condition, cst[Condition])>>
    /\ conf[1][1].in # <<>> /\ conf[1][1].in # lastIn
    /\ conf[2] = lastIn

\* C16: ActionSequence.modify(x) and ActionChain.modify(x) call modify(x) on
\* child A exactly once and leave B unchanged; in ActionChain B's
\* configuration is changed only by A's result during execute.
C16_SequenceChainModify ==
    comb \in {"Sequence", "Chain"} =>
        /\ Modified(1) = calls
        /\ conf[1] = lastIn
        /\ comb = "Sequence" => (conf[2] = <<>> /\ Modified(2) = 0)
        /\ comb = "Chain" =>
              /\ conf[2] \in {<<>>, <<Result(1, cst[1])>>}
              /\ conf[2] # <<>> => cst[1].pc = "done"
              /\ Modified(2) = IF conf[2] = <<>> THEN 0 ELSE 1

\* C16 witness: a Chain was modified, executed and modified again; B holds
\* A's result, computed from the first input, and returned from it.
C16_Witness ==
    /\ comb = "Chain" /\ Returned /\ calls = 2
    /\ conf[2] = <<Result(1, cst[1])>>
    /\ conf[2][1].in # <<>> /\ conf[2][1].in # lastIn
    /\ conf[1] = lastIn
    /\ RetVal.in = conf[2]

\* C16 witness for the Sequence: modified twice, B still unconfigured.
C16_WitnessSequence ==
    /\ comb = "Sequence" /\ Returned /\ calls = 2
    /\ conf[1] = lastIn /\ conf[2] = <<>>

\* C17: ActionConcurrent.modify(x) applies the same x to both children;
\* ActionConcurrentSplit.modify((l, r)) applies l only to A and r only to B.
C17_ConcurrentModify ==
    /\ comb = "Concurrent" =>
          /\ Modified(1) = calls /\ Modified(2) = calls
          /\ conf[1] = lastIn /\ conf[2] = lastIn
    /\ comb = "ConcurrentSplit" =>
          /\ Modified(1) = calls /\ Modified(2) = calls
          /\ calls = 0 => (conf[1] = <<>> /\ conf[2] = <<>>)
          /\ calls > 0 => (conf[1] = <<lastIn[1][1]>> /\ conf[2] = <<lastIn[1][2]>>)

\* C17 witness: a ConcurrentSplit was modified with a pair of different
\* halves and then ran both children, each from its own half.
C17_Witness ==
    /\ comb = "ConcurrentSplit" /\ Returned /\ calls > 0
    /\ lastIn[1][1] # lastIn[1][2]
    /\ RetVal[1].in = <<lastIn[1][1]>> /\ RetVal[2].in = <<lastIn[1][2]>>

\* C17 witness for the Concurrent: both children ran from the same input.
C17_WitnessConcurrent ==
    /\ comb = "Concurrent" /\ Returned /\ calls > 0
    /\ RetVal[1].in = lastIn /\ RetVal[2].in = lastIn

\* C20: Race, Select and Concurrent pass their children's outcomes through
\* unexamined: the first completer's failure is returned at once by Race and
\* Select, without waiting for or falling back to the other child, and
\* Concurrent returns both outcomes as the children produced them.
C20_OutcomesPassThrough ==
    /\ comb \in {"Race", "Select"} =>
          /\ (\E c \in Children : cst[c].pc = "done") => Returned
          /\ Returned =>
                /\ \E c \in Children : cst[c].pc = "done"
                /\ cst[Other(Winner)].pc # "done"
                /\ cst[Winner].at = now
                /\ RetVal = Result(Winner, cst[Winner])
                /\ RetVal.ok = leaf[Winner].outs[1]
    /\ comb = "Concurrent" =>
          /\ (\E c \in Children : cst[c].pc # "done") => ~Returned
          /\ Returned =>
                /\ RetVal = <<Result(1, cst[1]), Result(2, cst[2])>>
                /\ RetVal[1].ok = leaf[1].outs[1]
                /\ RetVal[2].ok = leaf[2].outs[1]

\* C20 witness: a Race has returned the failure of the child that completed
\* first while the other child, which would have succeeded, was still
\* suspended and is dropped.
C20_Witness ==
    /\ comb = "Race" /\ Returned
    /\ \E c \in Children : cst[c].pc = "done"
    /\ ~RetVal.ok
    /\ leaf[Other(Winner)].outs[1]
    /\ cst[Other(Winner)].pc = "dropped" /\ cst[Other(Winner)].n = 1

\* C20 witness for the Concurrent: a failure and a success returned together.
C20_WitnessConcurrent ==
    /\ comb = "Concurrent" /\ Returned
    /\ ~RetVal[1].ok /\ RetVal[2].ok
    /\ cst[1].at < cst[2].at

\* The state in which the scope fired.
AtFire == fired[1]

C18_StartedAfterFire ==
    /\ comb = "Sequence" /\ cancelled
    /\ AtFire.cst[1].pc = "running" /\ AtFire.cst[2].n = 0
    /\ cst[2].n = 1

\* An Until made a further attempt after the scope fired.
C18_AttemptAfterFire ==
    /\ comb = "Until" /\ cancelled
    /\ cst[1].n > AtFire.cst[1].n

C21_NoPanic ==
    /\ pc # "panicked"
    /\ ~ENABLED Next =>
          \/ Returned
          \/ comb = "While" /\ \A j \in 1..Len(leaf[1].outs) : leaf[1].outs[j]
    /\ (comb = "Until" /\ Returned) =>
          /\ RetVal = Result(1, cst[1])
          /\ RetVal.n = cst[1].n
          /\ \A j \in 1..(cst[1].n - 1) : ~leaf[1].outs[j]
    /\ (comb = "While" /\ Returned) =>
          /\ RetVal.ok
          /\ ~Result(1, cst[1]).ok

\* C21 witness: both children of a Parallel reported a failure and the pair
\* of failures has been returned.
C21_Witness ==
    /\ comb = "Parallel" /\ Returned
    /\ ~RetVal[1].ok /\ ~RetVal[2].ok

\* C21 witness for Until: three failed attempts, the third failure returned.
C21_WitnessUntil ==
    /\ comb = "Until" /\ Returned /\ limit = 3
    /\ ~RetVal.ok /\ RetVal.n = 3

\* C25: FirstValid chooses only between two completed results: wrapping a
\* join of A and B it never returns before both have completed, even when A
\* completes first with a success, and B is never abandoned.
C25_FirstValidWaitsForBoth ==
    comb = "FirstValid" =>
        /\ \A c \in Children : cst[c].pc # "dropped"
        /\ (\E c \in Children : cst[c].pc # "done") => ~Returned
        /\ Returned =>
              /\ cst[1].pc = "done" /\ cst[2].pc = "done"
              /\ Happened("done", 1) /\ Happened("done", 2)
              /\ now >= cst[1].at /\ now = Max(cst[1].at, cst[2].at)

\* C25 witness: A completed first, with a success; FirstValid returned A's
\* value, but only when B had completed as well, later.
C25_Witness ==
    /\ comb = "FirstValid" /\ Returned
    /\ leaf[1].outs[1] /\ RetVal.by = 1
    /\ cst[1].at < cst[2].at /\ now = cst[2].at
    /\ cst[2].pc = "done" /\ cst[2].n = 1

\* C26: the attempts of Until and While are strictly sequential: within one
\* execute attempt n+1 of the child begins only after attempt n has completed
\* and its outcome has been examined, and two attempts never overlap.
C26_AttemptsSequential ==
    comb \in {"Until", "While"} =>
        LET k == Cardinality(At("start", 1))
            d == Cardinality(At("done", 1))
        IN /\ k = cst[1].n
           /\ d = IF cst[1].pc \in {"running", "waiting"} THEN k - 1 ELSE k
           /\ \A i \in 1..Len(log) :
                 log[i] = [ev |-> IF i % 2 = 1 THEN "start" ELSE "done", c |-> 1]
           /\ \A j \in 1..(k - 1) :
                 leaf[1].outs[j] = (comb = "While")

\* C26 witness: an Until made three attempts that each computed and
\* suspended, one after the other.
C26_Witness ==
    /\ comb = "Until" /\ Returned
    /\ leaf[1].busy > 0 /\ leaf[1].wait > 0
    /\ cst[1].n = 3 /\ Len(log) = 6
    /\ now = 3 * (leaf[1].busy + leaf[1].wait)

\* The child of the loop never reports a failure.
NeverFails == \A j \in 1..Len(leaf[1].outs) : leaf[1].outs[j]

\* C27: ActionWhile.execute() returns if and only if some attempt of the
\* child returns a failure: a child that fails on attempt n makes execute
\* return right after attempt n, and a child that never fails keeps the loop
\* running, there being no attempt bound (the run is cut only where the
\* child's listed outcomes end, with the loop about to start a further
\* attempt).
C27_WhileTermination ==
    comb = "While" =>
        /\ Returned =>
              /\ cst[1].pc = "done" /\ now = cst[1].at
              /\ ~leaf[1].outs[cst[1].n]
              /\ \A j \in 1..(cst[1].n - 1) : leaf[1].outs[j]
        /\ cst[1].pc = "done" => Returned
        /\ NeverFails => ~Returned
        /\ (~Returned /\ ~ENABLED Next) =>
              /\ NeverFails
              /\ pc = "poll" /\ cst[1].pc = "idle"
              /\ cst[1].n = Len(leaf[1].outs)

\* C27 witness: the child failed on its third attempt and the While
\* returned at the completion of that attempt.
C27_Witness ==
    /\ comb = "While" /\ Returned
    /\ FailsAfter(2) /\ cst[1].n = 3
    /\ leaf[1].wait > 0
    /\ now = 3 * (leaf[1].busy + leaf[1].wait)

\* C27 witness for the child that never fails: every listed attempt has
\* been made and the loop is about to make another.
C27_WitnessForever ==
    /\ comb = "While" /\ NeverFails
    /\ cst[1].n = Len(leaf[1].outs) /\ cst[1].pc = "idle" /\ pc = "poll"

\* C24: the single-child wrappers forward modify and project the result:
\* TupleSecond.execute() runs its child once and returns exactly the second
\* element of the child's pair; TupleSecond.modify(x) and FirstValid.modify(x)
\* forward x unchanged to the wrapped child, and ActionSelect.modify(x) and
\* DualAction.modify(x) forward x to both children.
C24_WrappersForward ==
    /\ comb \in {"TupleSecond", "FirstValid", "Select", "Dual"} =>
          /\ Modified(1) = calls /\ Modified(2) = calls
          /\ conf[1] = lastIn /\ conf[2] = lastIn
          /\ \A i \in 1..Len(log) :
                (log[i].ev = "modify" /\ log[i].c = 1) =>
                    (i < Len(log) /\ log[i + 1] = [ev |-> "modify", c |-> 2])
    /\ (comb = "TupleSecond" /\ Returned) =>
          /\ cst[1].pc = "done" /\ cst[2].pc = "done"
          /\ cst[1].n = 1 /\ cst[2].n = 1
          /\ RetVal = Result(2, cst[2])
          /\ RetVal.by = 2
          /\ RetVal.in = cst[2].in
    /\ (comb = "Dual" /\ Returned) =>
          RetVal = <<Result(1, cst[1]), Result(2, cst[2])>>

\* C24 witness: a TupleSecond was modified, ran its child once and returned
\* the second element, computed from the input it was given, although the
\* first element was ready earlier.
C24_Witness ==
    /\ comb = "TupleSecond" /\ Returned /\ calls = 1
    /\ RetVal.by = 2 /\ RetVal.in = lastIn
    /\ cst[1].in = lastIn
    /\ cst[1].at < cst[2].at

\* C24 witness for the Select: both branches were given the input and the
\* branch that finished first returned from it.
C24_WitnessSelect ==
    /\ comb = "Select" /\ Returned /\ calls = 2
    /\ conf[1] = lastIn /\ conf[2] = lastIn
    /\ RetVal.by = 2 /\ RetVal.in # <<>>

\* Where the latest invocation begins in the history (0 for the first).
RunStart ==
    LET E == {i \in 1..Len(log) : log[i].ev = "execute"}
    IN IF E = {} THEN 0 ELSE CHOOSE i \in E : \A j \in E : j <= i

\* The executions of child c begun in the latest invocation, and before it.
StartsNow(c) == Cardinality({i \in At("start", c) : i > RunStart})
StartsBefore(c) == Cardinality({i \in At("start", c) : i < RunStart})

\* C22: a combinator keeps no bookkeeping between invocations of execute: a
\* further execute re-runs the children from the start, ActionUntil begins
\* again with a fresh attempt count, a full `limit` attempts being available
\* whatever the previous invocation used, and ActionWhile begins again from
\* the default running result, not from the value the previous invocation
\* remembered.
C22_StatelessReexecution ==
    /\ (comb = "Sequence" /\ Returned) =>
          /\ StartsNow(1) = 1 /\ StartsNow(2) = 1
          /\ cst[1].n = Runs /\ cst[2].n = Runs
          /\ RetVal = Result(2, cst[2])
    /\ comb = "Until" =>
          /\ StartsNow(1) <= Max(limit, 1)
          /\ cst[1].n = StartsBefore(1) + StartsNow(1)
          /\ Returned =>
                /\ StartsNow(1) >= 1
                /\ RetVal = Result(1, cst[1])
                /\ ~RetVal.ok => StartsNow(1) = Max(limit, 1)
                /\ count = StartsNow(1)
    /\ (comb = "While" /\ Returned) =>
          /\ StartsNow(1) >= 1
          /\ RetVal = IF StartsNow(1) = 1 THEN Default
                      ELSE [by |-> 1, n |-> cst[1].n - 1, ok |-> TRUE, in |-> <<>>]

\* C22 witness: the first invocation of a While remembered a value; the
\* second, whose first attempt failed, has returned the default.
C22_Witness ==
    /\ comb = "While" /\ Returned /\ Runs = 2
    /\ leaf[1].outs[1] /\ StartsBefore(1) = 2
    /\ StartsNow(1) = 1 /\ RetVal = Default
    /\ acc = Default

\* C22 witness for the Until: the first invocation used all three attempts,
\* and the second made three attempts again.
C22_WitnessUntil ==
    /\ comb = "Until" /\ Returned /\ Runs = 2 /\ limit = 3
    /\ StartsBefore(1) = 3 /\ StartsNow(1) = 3
    /\ cst[1].n = 6 /\ ~RetVal.ok

\* The branch a select! over the two children completes with when its first
\* pass polls c1 first and a pass that finds both ready polls `tie` first:
\* a child without a suspension completes in the first pass; otherwise c1 is
\* due at its busy time plus its wait, the other child one busy time of c1
\* later than its own, and the earlier one wins.
SelectWinner(c1, tie) ==
    LET c2 == Other(c1)
        t1 == leaf[c1].busy + leaf[c1].wait
        t2 == leaf[c1].busy + leaf[c2].busy + leaf[c2].wait
    IN IF leaf[c1].wait = 0 THEN c1
       ELSE IF leaf[c2].wait = 0 THEN c2
       ELSE IF t1 < t2 THEN c1
       ELSE IF t2 < t1 THEN c2
       ELSE tie

PossibleWinners == {SelectWinner(c1, tie) : c1 \in Children, tie \in Children}

\* C23: ActionSelect is equivalent to RaceAction on execute: for the same
\* children both have the same possible results.  Each offers both poll
\* orders wherever select! chooses one, each returns the value of a child
\* that can finish first under some order, unwrapped and not in a tuple, and
\* each abandons the other child.
C23_SelectIsRace ==
    comb \in {"Race", "Select"} =>
        /\ pc = "start" => \A o \in SelectOrders : ENABLED (Next /\ todo' = o)
        /\ (pc = "parked" /\ ENABLED Wake) =>
              \A o \in SelectOrders : ENABLED (Wake /\ todo' = o)
        /\ Returned =>
              /\ \E c \in Children : cst[c].pc = "done"
              /\ cst[Other(Winner)].pc = "dropped"
              /\ Winner \in PossibleWinners
              /\ RetVal = Result(Winner, cst[Winner])
              /\ RetVal.by = Winner

\* C23 witness: both children of a Select became ready at the same instant
\* and the pass polled the second first: the Select returned the second
\* child's value, as a Race can.
C23_Witness ==
    /\ comb = "Select" /\ Returned
    /\ leaf[1].busy = 0 /\ leaf[2].busy = 0
    /\ leaf[1].wait > 0 /\ leaf[1].wait = leaf[2].wait
    /\ RetVal = Result(2, cst[2])
    /\ cst[1].pc = "dropped" /\ cst[1].n = 1

\* The same tie in a Race, won by the second child.
C23_WitnessRace ==
    /\ comb = "Race" /\ Returned
    /\ leaf[1].busy = 0 /\ leaf[2].busy = 0
    /\ leaf[1].wait > 0 /\ leaf[1].wait = leaf[2].wait
    /\ RetVal = Result(2, cst[2])
    /\ cst[1].pc = "dropped" /\ cst[1].n = 1

\* C29 as stated: each thread of ActionParallel holds its child's guard for
\* one poll cycle at a time, so the guard is free between poll cycles while
\* the child is suspended.
C29_Original ==
    comb = "Parallel" =>
        \A i \in Children :
            (cst[i].pc = "waiting" /\ now < cst[i].at) => ~guard[i]

\* C29, amended: each thread acquires its child's guard once, before the
\* child's first poll, and holds it until the child's execute has returned:
\* the guard is held whenever the child is computing or suspended, and it is
\* free only before the thread has locked it and after the child completed.
C29_GuardHeldThroughout ==
    comb = "Parallel" =>
        \A i \in Children :
            /\ guard[i] <=> tpc[i] = "locked"
            /\ cst[i].pc \in {"running", "waiting"} => guard[i]
            /\ cst[i].pc = "idle" => cst[i].n = 0
            /\ cst[i].pc = "done" <=> tpc[i] = "finished"
            /\ tpc[i] \in {"none", "spawned"} => cst[i] = IdleFuture

\* C29 witness: the first child has been suspended for some time, its timer
\* not yet due, and its thread holds the guard.
C29_Witness ==
    /\ comb = "Parallel"
    /\ cst[1].pc = "waiting" /\ now < cst[1].at
    /\ now > cst[1].at - leaf[1].wait
    /\ guard[1] /\ tpc[1] = "locked"

(***************************************************************************)
(* ActionParallel on runtimes of one or more threads.                      *)
(***************************************************************************)
\* ActionParallel::new(first, second).execute() on a runtime of one thread
\* (the current_thread flavor, or one worker) or of several.
InitRuntime ==
    /\ comb = "Parallel"
    /\ \E w \in 1..MaxWorkers : Setup(w)
    /\ nest = NoNest
    /\ MainIdle(<<>>)

NextRuntime ==
    \/ ActionParallel_execute
    \/ \E i \in Children : ParallelThread(i)
    \/ Tick

SpecRuntime == InitRuntime /\ [][NextRuntime]_vars

\* Nothing more happens: the caller is blocked or has returned, no thread
\* can poll its child, and no timer is pending.
Quiescent == ~ENABLED NextRuntime

\* C28 as stated: ActionParallel(A, B).execute() eventually returns whenever
\* each child completes when driven on its own, also when a child suspends
\* on a timer and also on a runtime of a single thread: execute() has
\* returned in every state in which nothing more can happen.
C28_Original ==
    (comb = "Parallel" /\ Quiescent) => Returned

\* With a worker besides the one blocked in join(), as under #[tokio::main]
\* on a machine of several cores, the timers are serviced and execute()
\* returns.
C28_ReturnsWithFreeWorker ==
    (comb = "Parallel" /\ workers > 1 /\ Quiescent) => Returned

\* The hang: on a runtime of one thread the caller is blocked in the first
\* join, the first child's timer is due, and nothing wakes the child.
C28_Hang ==
    /\ comb = "Parallel" /\ workers = 1
    /\ pc = "join1"
    /\ cst[1].pc = "waiting" /\ now >= cst[1].at
    /\ tpc[2] = "finished"
    /\ Quiescent

(***************************************************************************)
(* ActionParallel raced against a cooperative sibling.                     *)
(***************************************************************************)
InitNested ==
    /\ comb \in Nested
    /\ Setup(MainWorkers)
    /\ nest = NoNest
    /\ MainIdle(<<>>)

\* Time passes only when the task cannot go on: it is computing in the
\* sibling's poll or blocked in a join.
TickNested == ~ENABLED RaceParallel_execute /\ Tick

NextNested ==
    \/ RaceParallel_execute
    \/ \E i \in Children : ParallelThread(i)
    \/ TickNested

SpecNested == InitNested /\ [][NextNested]_vars

\* ActionParallel::execute has spawned a thread and has not returned.
ParallelRunning == tpc[1] # "none" /\ pc # "returned"

\* C30: ActionParallel::execute has no suspension point of its own.  From
\* the first spawn until both joins have returned the calling task never
\* yields: it is never parked, the sibling of an enclosing Race takes no
\* step (it stays as the last poll before the spawn left it, not started or
\* suspended, even when its timer has expired), and once the threads are
\* spawned the Race returns only the pair of the Parallel, after both
\* threads have finished, dropping the sibling.  The sibling's result is
\* returned only when no thread was ever spawned.
C30_NoSuspensionPoint ==
    comb = "RaceParallel" =>
        /\ pc # "parked"
        /\ tpc[1] # "none" =>
              /\ cst[Sibling].pc \in {"idle", "waiting", "dropped"}
              /\ cst[Sibling].n <= 1
              /\ \A i \in 1..Len(log), j \in 1..Len(log) :
                    (log[i].c = Sibling /\ log[j].c \in Children) => i < j
        /\ ParallelRunning =>
              /\ pc \in {"spawn2", "join1", "join2"}
              /\ ret = <<>>
              /\ cst[Sibling].pc # "dropped"
        /\ (Returned /\ tpc[1] # "none") =>
              /\ tpc = <<"finished", "finished">>
              /\ cst[Sibling].pc = "dropped"
              /\ RetVal = ParallelPair
        /\ (Returned /\ tpc[1] = "none") =>
              /\ cst[Sibling].pc = "done"
              /\ RetVal = Result(Sibling, cst[Sibling])
              /\ \A i \in Children : cst[i].pc = "dropped" /\ cst[i].n = 0

\* C30 witness: the sibling, a timer, was started before the Parallel and
\* its timer expired while the Parallel was running; the Race nevertheless
\* returned the Parallel's pair and dropped the sibling.
C30_Witness ==
    /\ comb = "RaceParallel"
    /\ Returned
    /\ tpc = <<"finished", "finished">>
    /\ RetVal = ParallelPair
    /\ cst[Sibling].pc = "dropped" /\ cst[Sibling].n = 1
    /\ cst[Sibling].at < now

\* C30 witness: the task is blocked in the first join, the sibling's timer
\* is due, and the sibling is still suspended.
C30_WitnessBlocked ==
    /\ comb = "RaceParallel"
    /\ pc = "join1" /\ tpc[1] = "locked"
    /\ cst[Sibling].pc = "waiting" /\ now > cst[Sibling].at

(***************************************************************************)
(* The attempt counter of ActionUntil.                                     *)
(***************************************************************************)
\* The attempts of the child that have completed, and those that failed.
Completed == Cardinality(At("done", 1))

Failed == Cardinality({j \in 1..Completed : ~leaf[1].outs[Min(j, Len(leaf[1].outs))]})

\* C38 as stated: at every point of ActionUntil::execute the counter equals
\* 1 plus the number of failed attempts so far.
C38_Original ==
    (comb = "Until" /\ pc # "start") => count = 1 + Failed

\* C38, amended: the counter starts at 1 and is incremented when a retry,
\* made after a failed attempt, has completed, so at every point it equals
\* the number of attempts completed so far (1 until the first has
\* completed), every attempt before the last completed one being a failure.
\* It never exceeds max(limit, 1), so the increment never wraps, also for
\* the largest limit.
C38_UntilCounter ==
    (comb = "Until" /\ pc # "start") =>
        /\ count = Max(1, Completed)
        /\ \A j \in 1..(Completed - 1) : ~leaf[1].outs[j]
        /\ count = 1 + Cardinality({j \in 1..(Completed - 1) : ~leaf[1].outs[j]})
        /\ count <= Max(limit, 1)
        /\ count < UintMod

\* C38 witness: with the largest limit every attempt has failed and the
\* counter has reached the limit without wrapping.
C38_Witness ==
    /\ comb = "Until" /\ Returned
    /\ limit = UintMod - 1
    /\ IsErr(RetVal)
    /\ count = limit /\ Completed = limit /\ Failed = limit

(***************************************************************************)
(* The three joins.                                                        *)
(***************************************************************************)
Joins == {"Concurrent", "ConcurrentSplit", "Dual"}

\* The time at which a join of the two children in one task completes: the
\* first child is due after its CPU work and its wait, the second child is
\* first polled when the first child's CPU work is over and is due after its
\* own CPU work and wait; the join completes when both are due.
JoinFinish ==
    Max(leaf[1].busy + leaf[1].wait,
        leaf[1].busy + leaf[2].busy + leaf[2].wait)

\* C37: ActionConcurrent, ActionConcurrentSplit and DualAction have the same
\* execute behaviour.  For the same children each starts both children in
\* the calling task (no thread is spawned), the first child first and the
\* second before the task suspends, each completes when both children have
\* completed, at the same time, and each returns the pair (first's result,
\* second's result).
C37_JoinsAgree ==
    comb \in Joins =>
        /\ tpc = <<"none", "none">>
        /\ cst[2].pc # "idle" => cst[1].pc # "idle"
        /\ pc \in {"parked", "returned"} => \A c \in Children : cst[c].n = 1
        /\ \A c \in Children : cst[c].pc # "dropped" /\ cst[c].n <= 1
        /\ now <= JoinFinish
        /\ Returned =>
              /\ cst[1].pc = "done" /\ cst[2].pc = "done"
              /\ now = JoinFinish
              /\ RetVal = <<Result(1, cst[1]), Result(2, cst[2])>>

\* C37 witness: a DualAction whose second child completed before the first
\* has returned the pair in child order.
C37_Witness ==
    /\ comb = "Dual" /\ Returned
    /\ Precedes("done", 2, "done", 1)
    /\ leaf[1].wait > leaf[2].busy + leaf[2].wait
    /\ RetVal[1].by = 1 /\ RetVal[2].by = 2

\* The same schedule under ActionConcurrentSplit.
C37_WitnessSplit ==
    /\ comb = "ConcurrentSplit" /\ Returned
    /\ Precedes("done", 2, "done", 1)
    /\ leaf[1].wait > leaf[2].busy + leaf[2].wait
    /\ RetVal[1].by = 1 /\ RetVal[2].by = 2

\* The same schedule under ActionConcurrent.
C37_WitnessConcurrent ==
    /\ comb = "Concurrent" /\ Returned
    /\ Precedes("done", 2, "done", 1)
    /\ leaf[1].wait > leaf[2].busy + leaf[2].wait
    /\ RetVal[1].by = 1 /\ RetVal[2].by = 2

(***************************************************************************)
(* ActionParallel executed again.  The two Arc<Mutex<_>> belong to the     *)
(* combinator, so the guards live on from one execute() to the next; the   *)
(* threads and their join handles are local to one execute().              *)
(***************************************************************************)
ParallelReexecute ==
    /\ comb = "Parallel"
    /\ pc = "returned"
    /\ Runs < MaxRuns
    /\ pc' = "start"
    /\ ret' = <<>>
    /\ cst' = [c \in 1..3 |-> [IdleFuture EXCEPT !.n = cst[c].n]]
    /\ log' = log \o <<[ev |-> "execute", c |-> 0]>>
    /\ tpc' = <<"none", "none">>
    /\ tval' = <<<<>>, <<>>>>
    /\ UNCHANGED <<mainVars, comb, workers, nest, leaf, limit, conf, now, stage, count, todo,
                   guard, acc, calls, lastIn, cancelled, fired>>

InitParallelAgain ==
    /\ comb = "Parallel"
    /\ Setup(MainWorkers)
    /\ nest = NoNest
    /\ MainIdle(<<>>)

NextParallelAgain ==
    \/ ActionParallel_execute
    \/ \E i \in Children : ParallelThread(i)
    \/ Tick
    \/ ParallelReexecute

SpecParallelAgain == InitParallelAgain /\ [][NextParallelAgain]_vars

\* C31: a child of an ActionParallel is executed only by the thread that
\* holds the child's guard, so at most one thread executes it at a time;
\* when execute() returns both threads have terminated and both guards are
\* free, so in a later execute() of the same ActionParallel the guards are
\* free at the start and a spawned thread never finds its guard held.
C31_GuardExclusionAndRelease ==
    comb = "Parallel" =>
        /\ \A i \in Children :
              /\ cst[i].pc \in {"running", "waiting"} => guard[i] /\ tpc[i] = "locked"
              /\ guard[i] => tpc[i] = "locked"
              /\ tpc[i] = "spawned" => ~guard[i]
              /\ tpc[i] = "spawned" => ENABLED ParallelThread(i)
        /\ pc \in {"start", "returned"} => guard = <<FALSE, FALSE>>
        /\ Returned => tpc = <<"finished", "finished">>

\* C31 witness: in the second execute() of the same ActionParallel a thread
\* holds its child's guard again while the child is suspended.
C31_Witness ==
    /\ comb = "Parallel" /\ Runs = 2
    /\ guard[1] /\ tpc[1] = "locked"
    /\ cst[1].pc = "waiting" /\ cst[1].n = 2

\* C31 witness: the second execute() has returned with both guards free.
C31_WitnessReturned ==
    /\ comb = "Parallel" /\ Runs = 2 /\ Returned
    /\ guard = <<FALSE, FALSE>>
    /\ cst[1].n = 2 /\ cst[2].n = 2

(***************************************************************************)
(* act_nest! and wrap_action.  An action is a tree: a leaf, named by a     *)
(* number, or a combinator over its children.                              *)
(***************************************************************************)
LeafAction(k) == [op |-> "leaf", id |-> k]

ActionSequence_new(first, second) == [op |-> "Sequence", first |-> first, second |-> second]

RaceAction_new(first, second) == [op |-> "Race", first |-> first, second |-> second]

ActionConcurrent_new(first, second) ==
    [op |-> "Concurrent", first |-> first, second |-> second]

FirstValid_new(action) == [op |-> "FirstValid", action |-> action]

\* A call of a constructor of two actions, named by its path.
Call2(f, x, y) ==
    CASE f = "ActionSequence::new" -> ActionSequence_new(x, y)
      [] f = "RaceAction::new" -> RaceAction_new(x, y)
      [] f = "ActionConcurrent::new" -> ActionConcurrent_new(x, y)

\* A call of a constructor of one action.
Call1(f, x) ==
    CASE f = "FirstValid::new" -> FirstValid_new(x)

\* move |val1: T, val2: U| wrapper(wrapee(val1, val2))
wrap_action(wrapee, wrapper, val1, val2) == Call1(wrapper, Call2(wrapee, val1, val2))

\* The closure wrap_action(ActionConcurrent::new, FirstValid::new), the
\* example of the function's documentation.
ConcurrentFirstValid(val1, val2) ==
    wrap_action("ActionConcurrent::new", "FirstValid::new", val1, val2)

Wrappers == {"Sequence", "Race", "ConcurrentFirstValid"}

\* $wrapper(l, r) for the wrappers above.
Wrap(wrapper, l, r) ==
    CASE wrapper = "Sequence" -> Call2("ActionSequence::new", l, r)
      [] wrapper = "Race" -> Call2("RaceAction::new", l, r)
      [] wrapper = "ConcurrentFirstValid" -> ConcurrentFirstValid(l, r)

\* Faulty variant: the macro nests to the left.
RECURSIVE act_nest_left(_, _)
act_nest_left(wrapper, actions) ==
    IF Len(actions) = 2
    THEN Wrap(wrapper, actions[1], actions[2])
    ELSE Wrap(wrapper, act_nest_left(wrapper, SubSeq(actions, 1, Len(actions) - 1)),
              actions[Len(actions)])

\* ($wrapper, $action_l, $action_r) => $wrapper($action_l, $action_r)
\* ($wrapper, $action_l, $($action_r),+) =>
\*     $wrapper($action_l, act_nest!($wrapper, $($action_r),+))
RECURSIVE act_nest(_, _)
act_nest(wrapper, actions) ==
    IF Len(actions) = 2
    THEN Wrap(wrapper, actions[1], actions[2])
    ELSE Wrap(wrapper, actions[1], act_nest(wrapper, Tail(actions)))

\* The lists of actions a macro call is given.
ArgLists ==
    UNION {[1..n -> {LeafAction(k) : k \in 1..MaxLeafId}] : n \in 2..MaxArgs}

InitActNest ==
    /\ comb = "Sequence"
    /\ Setup(MainWorkers)
    /\ \A c \in Futures : leaf[c].busy = 0 /\ leaf[c].wait = 0
                            /\ \A j \in 1..Len(leaf[c].outs) : leaf[c].outs[j]
    /\ \E w \in Wrappers, a \in ArgLists :
          nest = [NoNest EXCEPT !.wrapper = w, !.args = a]
    /\ MainIdle(<<>>)

\* act_nest!(wrapper, a1, ..., an)
ActNestBuild ==
    /\ nest.wrapper # "none"
    /\ nest.built = <<>>
    /\ LET action == act_nest(nest.wrapper, nest.args) IN
       nest' = [nest EXCEPT !.built = <<action>>, !.stack = <<action>>]
    /\ UNCHANGED <<mainVars, comb, workers, leaf, limit, conf, cst, now, log, pc, stage, count, todo,
                   ret, tpc, guard, tval, acc, calls, lastIn, cancelled, fired>>

\* execute() of the action built with ActionSequence::new:
\* self.first.execute().await; self.second.execute().await
\* The stack holds the actions still to execute, the next one on top; a
\* leaf's execution is recorded in the trace and its value is its name.
ActNestExecute ==
    /\ nest.wrapper = "Sequence"
    /\ nest.stack # <<>>
    /\ LET top == Head(nest.stack) IN
       IF top.op = "leaf"
       THEN nest' = [nest EXCEPT !.stack = Tail(nest.stack),
                                 !.trace = Append(nest.trace, top),
                                 !.result = <<top>>]
       ELSE nest' = [nest EXCEPT !.stack = <<top.first, top.second>> \o Tail(nest.stack)]
    /\ UNCHANGED <<mainVars, comb, workers, leaf, limit, conf, cst, now, log, pc, stage, count, todo,
                   ret, tpc, guard, tval, acc, calls, lastIn, cancelled, fired>>

NextActNest == ActNestBuild \/ ActNestExecute

SpecActNest == InitActNest /\ [][NextActNest]_vars

\* The two-child combinator of a node: the node itself, or the one a
\* FirstValid wraps.
Pair(t) == IF t.op = "FirstValid" THEN t.action ELSE t

\* The node reached from t by descending k times into the second child.
RECURSIVE RightSpine(_, _)
RightSpine(t, k) == IF k = 0 THEN t ELSE RightSpine(Pair(t).second, k - 1)

\* The combinator on the outside of a node the wrapper builds, and the
\* two-child combinator that holds the children.
OuterOp(wrapper) == IF wrapper = "ConcurrentFirstValid" THEN "FirstValid" ELSE wrapper

InnerOp(wrapper) == IF wrapper = "ConcurrentFirstValid" THEN "Concurrent" ELSE wrapper

\* C32: act_nest!(W, a1, ..., an), n >= 2, builds W(a1, W(a2, ... W(a(n-1),
\* an))): descending k times into the second child one finds a node built by
\* W whose first child is a(k+1), and the last such node has an as second
\* child.  wrap_action(wrapee, wrapper)(x, y) is wrapper(wrapee(x, y)): the
\* wrapper is on the outside and holds the wrapee over x and y.  With W =
\* ActionSequence::new the children execute in the order a1..an and the
\* result is an's.
C32_NestsToTheRight ==
    nest.built # <<>> =>
        LET t == nest.built[1]
            n == Len(nest.args)
        IN /\ \A k \in 0..(n - 2) :
                 LET node == RightSpine(t, k) IN
                 /\ node.op = OuterOp(nest.wrapper)
                 /\ Pair(node).op = InnerOp(nest.wrapper)
                 /\ Pair(node).first = nest.args[k + 1]
           /\ Pair(RightSpine(t, n - 2)).second = nest.args[n]
           /\ nest.wrapper = "ConcurrentFirstValid" =>
                 /\ t.op = "FirstValid"
                 /\ DOMAIN t = {"op", "action"}
                 /\ t.action.op = "Concurrent"
                 /\ t.action.first = nest.args[1]
           /\ nest.wrapper = "Sequence" =>
                 /\ Len(nest.trace) <= n
                 /\ nest.trace = SubSeq(nest.args, 1, Len(nest.trace))
                 /\ nest.result = IF nest.trace = <<>> THEN <<>>
                                  ELSE <<nest.trace[Len(nest.trace)]>>
                 /\ nest.stack = <<>> =>
                       /\ nest.trace = nest.args
                       /\ nest.result = <<nest.args[n]>>

\* C32 witness: a sequence nested from the largest number of actions, the
\* first and the last of them different, has executed them all.
C32_Witness ==
    /\ nest.wrapper = "Sequence" /\ nest.built # <<>> /\ nest.stack = <<>>
    /\ Len(nest.args) = MaxArgs
    /\ nest.args[1] # nest.args[MaxArgs]
    /\ nest.trace = nest.args
    /\ nest.result = <<nest.args[MaxArgs]>>

\* C32 witness: three actions nested with the closure wrap_action returns.
C32_WitnessWrapped ==
    /\ nest.wrapper = "ConcurrentFirstValid" /\ nest.built # <<>>
    /\ Len(nest.args) = 3
    /\ nest.built[1] =
          FirstValid_new(ActionConcurrent_new(nest.args[1],
              FirstValid_new(ActionConcurrent_new(nest.args[2], nest.args[3]))))

(***************************************************************************)
(* main.rs: main runs the missions named on the command line one after     *)
(* the other; the task spawned by shutdown_handler waits for Ctrl-C or a   *)
(* message on the shutdown channel, stops the motors, and on an unexpected *)
(* shutdown cancels the mission token and exits.  A mission is a number of *)
(* steps, each of which sends a speed command and then suspends.           *)
(***************************************************************************)
\* "ctwrap": a mission run through ctwrap!; "direct": a mission awaited
\* without the token ("empty", "depth_test", "torpedo_only", ...);
\* "invalid": a name run_mission does not know (bail!).
MissionKinds == {"ctwrap", "direct", "invalid"}

Missions == [kind : MissionKinds, steps : 1..MaxSteps]

ArgVectors == UNION {[1..n -> Missions] : n \in 0..MaxMissions}

InitMain ==
    /\ comb = "Sequence"
    /\ Setup(MainWorkers)
    /\ \A c \in Futures : leaf[c].busy = 0 /\ leaf[c].wait = 0
                            /\ \A j \in 1..Len(leaf[c].outs) : leaf[c].outs[j]
    /\ nest = NoNest
    /\ \E missions \in ArgVectors : MainIdle(missions)

Running == process = <<>>

\* A mission is between its start and the end of its loop iteration.
MissionRunning == mpc \in {"mission", "kill_set", "kill_wait", "return"}

\* let _guard = SHUTDOWN_GUARD.acquire().await.unwrap(); run_mission(&arg, ..)
MainAcquire ==
    /\ Running
    /\ mpc = "loop" /\ arg <= Len(args)
    /\ shutdown_guard > 0
    /\ shutdown_guard' = shutdown_guard - 1
    /\ IF args[arg].kind = "invalid"
       THEN mpc' = "return" /\ steps' = 0 /\ res' = <<"Err">>
       ELSE mpc' = "mission" /\ steps' = args[arg].steps /\ res' = <<>>
    /\ ran' = Append(ran, arg)
    /\ ended' = "none"
    /\ handshake' = <<>>
    /\ UNCHANGED <<args, arg, pipeline_kill, hpc, exit_status, acquired, shutdown_rx,
                   watcher, mission_ct, motors, process>>
    /\ UNCHANGED actionVars

\* One step of the mission's future: a speed command to the control board,
\* possibly a vision pipeline started, then a suspension.
MissionStep ==
    /\ Running
    /\ mpc = "mission" /\ steps > 0
    /\ steps' = steps - 1
    /\ motors' = "running"
    /\ \E started \in {0, 1} :
          /\ pipeline_kill.count + started <= MaxPipelines
          /\ pipeline_kill' = [pipeline_kill EXCEPT !.count = @ + started]
    /\ UNCHANGED <<args, arg, mpc, res, ended, handshake, shutdown_guard, ran, hpc,
                   exit_status, acquired, shutdown_rx, watcher, mission_ct, process>>
    /\ UNCHANGED actionVars

\* Faulty variant: a cancelled mission is reported as an error.
CtwrapResult_propagating(end) == IF end = "cancelled" THEN "Err" ELSE "Ok"

\* let _ = cancel.run_until_cancelled($fut).await; Ok(())
CtwrapResult(end) == "Ok"

\* The mission's future completes, or run_until_cancelled gives up on it
\* because the token is cancelled; `res` is set.
MissionEnd ==
    /\ Running
    /\ mpc = "mission"
    /\ \/ /\ steps = 0
          /\ ended' = "completed"
       \/ /\ args[arg].kind = "ctwrap"
          /\ mission_ct
          /\ ended' = "cancelled"
    /\ res' = <<IF args[arg].kind = "ctwrap" THEN CtwrapResult(ended') ELSE "Ok">>
    /\ mpc' = "kill_set"
    /\ UNCHANGED <<args, arg, steps, handshake, pipeline_kill, shutdown_guard, ran, hpc,
                   exit_status, acquired, shutdown_rx, watcher, mission_ct, motors, process>>
    /\ UNCHANGED actionVars

\* PIPELINE_KILL.write().unwrap().1 = true;
KillSet ==
    /\ Running
    /\ mpc = "kill_set"
    /\ pipeline_kill' = [pipeline_kill EXCEPT !.flag = TRUE]
    /\ handshake' = Append(handshake, "set")
    /\ mpc' = "kill_wait"
    /\ UNCHANGED <<args, arg, steps, res, ended, shutdown_guard, ran, hpc, exit_status,
                   acquired, shutdown_rx, watcher, mission_ct, motors, process>>
    /\ UNCHANGED actionVars

\* while PIPELINE_KILL.read().unwrap().0 > 0 { sleep(..).await; }
\* PIPELINE_KILL.write().unwrap().1 = false;
\* (A pass through the loop body is recorded once.)
KillWait ==
    /\ Running
    /\ mpc = "kill_wait"
    /\ \/ /\ pipeline_kill.count > 0
          /\ handshake = <<"set">>
          /\ handshake' = Append(handshake, "sleep")
          /\ UNCHANGED <<pipeline_kill, mpc>>
       \/ /\ pipeline_kill.count = 0
          /\ pipeline_kill' = [pipeline_kill EXCEPT !.flag = FALSE]
          /\ handshake' = handshake \o <<"zero", "clear">>
          /\ mpc' = "return"
    /\ UNCHANGED <<args, arg, steps, res, ended, shutdown_guard, ran, hpc, exit_status,
                   acquired, shutdown_rx, watcher, mission_ct, motors, process>>
    /\ UNCHANGED actionVars

\* A vision pipeline sees the kill flag and leaves.
PipelineExit ==
    /\ Running
    /\ pipeline_kill.flag /\ pipeline_kill.count > 0
    /\ pipeline_kill' = [pipeline_kill EXCEPT !.count = @ - 1]
    /\ UNCHANGED <<args, arg, mpc, steps, res, ended, handshake, shutdown_guard, ran, hpc,
                   exit_status, acquired, shutdown_rx, watcher, mission_ct, motors, process>>
    /\ UNCHANGED actionVars

\* run_mission returns `res`; main unwraps it, and the iteration ends, which
\* drops _guard.  The unwrap of an Err panics, and the panic hook exits.
MissionReturn ==
    /\ Running
    /\ mpc = "return"
    /\ IF res = <<"Ok">>
       THEN /\ shutdown_guard' = shutdown_guard + 1
            /\ arg' = arg + 1
            /\ mpc' = "loop"
            /\ UNCHANGED <<mission_ct, process>>
       ELSE /\ mission_ct' = TRUE
            /\ process' = <<1>>
            /\ UNCHANGED <<shutdown_guard, arg, mpc>>
    /\ UNCHANGED <<args, steps, res, ended, handshake, pipeline_kill, ran, hpc, exit_status,
                   acquired, shutdown_rx, watcher, motors>>
    /\ UNCHANGED actionVars

\* shutdown_tx.send(0).unwrap();
MainSend ==
    /\ Running
    /\ mpc = "loop" /\ arg > Len(args)
    /\ shutdown_rx' = Append(shutdown_rx, 0)
    /\ mpc' = "end"
    /\ UNCHANGED <<args, arg, steps, res, ended, handshake, pipeline_kill, shutdown_guard,
                   ran, hpc, exit_status, acquired, watcher, mission_ct, motors, process>>
    /\ UNCHANGED actionVars

\* main returns: #[tokio::main] drops the runtime, which drops the spawned
\* tasks where they are suspended, and the process exits with status 0.
MainReturn ==
    /\ Running
    /\ mpc = "end"
    /\ process' = <<0>>
    /\ UNCHANGED <<args, arg, mpc, steps, res, ended, handshake, pipeline_kill,
                   shutdown_guard, ran, hpc, exit_status, acquired, shutdown_rx, watcher,
                   mission_ct, motors>>
    /\ UNCHANGED actionVars

\* The watcher task has seen the thrusters armed and then disarmed:
\* shutdown_tx_clone.send(1).unwrap();
WatcherSend ==
    /\ Running
    /\ watcher
    /\ hpc # "done"
    /\ watcher' = FALSE
    /\ shutdown_rx' = Append(shutdown_rx, 1)
    /\ UNCHANGED <<args, arg, mpc, steps, res, ended, handshake, pipeline_kill,
                   shutdown_guard, ran, hpc, exit_status, acquired, mission_ct, motors,
                   process>>
    /\ UNCHANGED actionVars

\* tokio::select! { _ = signal::ctrl_c() => 1, Some(x) = shutdown_rx.recv() => x }
HandlerWake ==
    /\ Running
    /\ hpc = "wait"
    /\ \/ /\ exit_status' = <<1>>
          /\ UNCHANGED shutdown_rx
       \/ /\ shutdown_rx # <<>>
          /\ exit_status' = <<Head(shutdown_rx)>>
          /\ shutdown_rx' = Tail(shutdown_rx)
    /\ hpc' = "stop"
    /\ UNCHANGED <<args, arg, mpc, steps, res, ended, handshake, pipeline_kill,
                   shutdown_guard, ran, acquired, watcher, mission_ct, motors, process>>
    /\ UNCHANGED actionVars

\* control_board.relative_dof_speed_set_batch(&[0.0; 6]).await.unwrap();
HandlerStop ==
    /\ Running
    /\ hpc = "stop"
    /\ motors' = "stopped"
    /\ hpc' = "torpedo"
    /\ UNCHANGED <<args, arg, mpc, steps, res, ended, handshake, pipeline_kill,
                   shutdown_guard, ran, exit_status, acquired, shutdown_rx, watcher,
                   mission_ct, process>>
    /\ UNCHANGED actionVars

\* ResetTorpedo::new(..).execute().await; if exit_status != 0 { .. }
HandlerTorpedo ==
    /\ Running
    /\ hpc = "torpedo"
    /\ hpc' = IF exit_status # <<0>> THEN "cancel" ELSE "done"
    /\ UNCHANGED <<args, arg, mpc, steps, res, ended, handshake, pipeline_kill,
                   shutdown_guard, ran, exit_status, acquired, shutdown_rx, watcher,
                   mission_ct, motors, process>>
    /\ UNCHANGED actionVars

\* mission_ct_clone.cancel();
HandlerCancel ==
    /\ Running
    /\ hpc = "cancel"
    /\ mission_ct' = TRUE
    /\ hpc' = "acquire"
    /\ UNCHANGED <<args, arg, mpc, steps, res, ended, handshake, pipeline_kill,
                   shutdown_guard, ran, exit_status, acquired, shutdown_rx, watcher,
                   motors, process>>
    /\ UNCHANGED actionVars

\* timeout(Duration::from_secs(SHUTDOWN_TIMEOUT), SHUTDOWN_GUARD.acquire()).await.is_err()
\* The permit, if one is got, is a temporary of the condition and is given
\* back at once; the timeout expires only while no permit is to be had.
HandlerAcquire ==
    /\ Running
    /\ hpc = "acquire"
    /\ acquired' = IF shutdown_guard > 0 THEN "permit" ELSE "timeout"
    /\ hpc' = "exit"
    /\ UNCHANGED <<args, arg, mpc, steps, res, ended, handshake, pipeline_kill,
                   shutdown_guard, ran, exit_status, shutdown_rx, watcher, mission_ct,
                   motors, process>>
    /\ UNCHANGED actionVars

\* exit(exit_status)
HandlerExit ==
    /\ Running
    /\ hpc = "exit"
    /\ process' = exit_status
    /\ UNCHANGED <<args, arg, mpc, steps, res, ended, handshake, pipeline_kill,
                   shutdown_guard, ran, hpc, exit_status, acquired, shutdown_rx, watcher,
                   mission_ct, motors>>
    /\ UNCHANGED actionVars

NextMain ==
    \/ MainAcquire
    \/ MissionStep
    \/ MissionEnd
    \/ KillSet
    \/ KillWait
    \/ PipelineExit
    \/ MissionReturn
    \/ MainSend
    \/ MainReturn
    \/ WatcherSend
    \/ HandlerWake
    \/ HandlerStop
    \/ HandlerTorpedo
    \/ HandlerCancel
    \/ HandlerAcquire
    \/ HandlerExit

SpecMain == InitMain /\ [][NextMain]_vars

\* A handshake run_mission can have made: the flag set, the count awaited
\* (with or without sleeping), the flag cleared.
Handshakes == {<<"set", "zero", "clear">>, <<"set", "sleep", "zero", "clear">>}

\* C33: a mission run through ctwrap! is reported in the same way whether
\* its future completed or the token fired first: `res` is Ok(()) from the
\* moment the mission's future is left, and when run_mission returns it has
\* set the kill flag, waited until the pipeline count was 0 and cleared the
\* flag.  While it waits the flag is set.
C33_CancelledReportedAsCompleted ==
    (Len(args) >= arg /\ MissionRunning /\ args[arg].kind = "ctwrap") =>
        /\ mpc = "mission" => res = <<>> /\ handshake = <<>>
        /\ mpc # "mission" => res = <<"Ok">> /\ ended \in {"completed", "cancelled"}
        /\ ended = "cancelled" => mission_ct
        /\ mpc = "kill_set" => handshake = <<>>
        /\ mpc = "kill_wait" => pipeline_kill.flag /\ Head(handshake) = "set"
        /\ mpc = "return" =>
              /\ handshake \in Handshakes
              /\ pipeline_kill = [count |-> 0, flag |-> FALSE]

\* C33 witness: a mission abandoned on cancellation, with steps left and a
\* pipeline running, has been reported Ok after the whole handshake, for
\* which run_mission had to wait.
C33_Witness ==
    /\ Running /\ mpc = "return"
    /\ args[arg].kind = "ctwrap"
    /\ ended = "cancelled" /\ steps > 0
    /\ res = <<"Ok">>
    /\ handshake = <<"set", "sleep", "zero", "clear">>

\* C33 witness: a mission that completed has been reported Ok.
C33_WitnessCompleted ==
    /\ Running /\ mpc = "return"
    /\ args[arg].kind = "ctwrap"
    /\ ended = "completed" /\ ~mission_ct
    /\ res = <<"Ok">>
    /\ handshake \in Handshakes

\* The handler's wait for the guard ends in this step, with a permit or
\* by the timeout.
GotPermit == acquired = "none" /\ acquired' = "permit"

TimedOut == acquired = "none" /\ acquired' = "timeout"

\* C34: main runs the missions strictly in argument order, each while it
\* holds the single permit of SHUTDOWN_GUARD: the permit is taken exactly
\* while a mission is running, the missions started so far are the first
\* arguments in their order, the next one is started only when the one
\* before has ended, and the handler gets the permit only when no mission
\* is running; while one is running its wait can only time out.
C34_OneMissionAtATime ==
    /\ [](/\ MissionRunning => shutdown_guard = 0
          /\ ~MissionRunning => shutdown_guard = Permits
          /\ \A i \in 1..Len(ran) : ran[i] = i
          /\ Len(ran) = IF MissionRunning THEN arg ELSE arg - 1
          /\ Len(ran) <= Len(args))
    /\ [][/\ GotPermit => ~MissionRunning /\ shutdown_guard > 0
          /\ TimedOut => MissionRunning
          /\ Len(ran') > Len(ran) => ~MissionRunning /\ ran' = Append(ran, Len(ran) + 1)]_vars

\* C34 witness: the handler got the permit between two missions, after the
\* first had ended and before the second was started.
C34_Witness ==
    /\ acquired = "permit"
    /\ Len(args) = 2 /\ ran = <<1>> /\ arg = 2 /\ mpc = "loop"
    /\ hpc = "exit" /\ Running

\* C34 witness: the handler's wait timed out while the second mission ran.
C34_WitnessTimeout ==
    /\ acquired = "timeout"
    /\ ran = <<1, 2>> /\ mpc = "mission"
    /\ shutdown_guard = 0

\* The handler has sent the zero-speed command.
StopSent == hpc \in {"torpedo", "cancel", "acquire", "exit", "done"}

\* The shutdown is an unexpected one: Ctrl-C or the watcher's message.
Unexpected == exit_status # <<>> /\ exit_status # <<0>>

\* C35 as stated: after an unexpected shutdown signal, once the handler has
\* sent the zero-speed command no mission takes a further step that sends a
\* speed command: the motors stay stopped, up to and after the exit.
C35_Original ==
    (Unexpected /\ StopSent) => motors = "stopped"

\* The state the code allows: the handler has stopped the motors and has
\* not yet cancelled the token, and the mission, still running, has sent
\* its next speed command.
C35_MotorsRestarted ==
    /\ Unexpected /\ hpc \in {"torpedo", "cancel"}
    /\ ~mission_ct
    /\ mpc = "mission" /\ args[arg].kind = "ctwrap"
    /\ motors = "running"

\* The process has exited on an unexpected shutdown with the motors running.
C35_ExitedRunning ==
    /\ process = <<1>> /\ hpc = "exit"
    /\ motors = "running"

\* C36 as stated: after the last mission has finished and main has sent
\* shutdown status 0, the process does not exit before the handler has
\* completed its stop command and its torpedo reset: when the process has
\* exited on the normal path the handler is through both and the motors
\* are stopped.
C36_Original ==
    (process = <<0>> /\ ran # <<>> /\ ~Unexpected) => (hpc = "done" /\ motors = "stopped")

\* The state the code allows: main has returned and the process has exited
\* with status 0 while the message is still in the channel, the handler has
\* not run, and the motors run as the last mission left them.
C36_ExitedBeforeStop ==
    /\ process = <<0>>
    /\ shutdown_rx = <<0>> /\ hpc = "wait"
    /\ ran # <<>> /\ motors = "running"

\* The handler can also win the race: the process exits with the stop
\* command and the torpedo reset done.
C36_ExitedAfterStop ==
    /\ process = <<0>>
    /\ hpc = "done" /\ exit_status = <<0>>
    /\ ran # <<>> /\ motors = "stopped"

====
